---------------------------- MODULE Spec2Model ----------------------------
(***************************************************************************)
(* Release tooling of obsidian-paste-cleaner: the changelog parser and     *)
(* writer (tools/release-utils.ts) and the release script (tools/          *)
(* release.ts).  Text is modelled as TLA+ strings, character by character: *)
(* a changelog is the string read from CHANGELOG.md, a version is the      *)
(* string held in manifest.json.                                           *)
(***************************************************************************)
EXTENDS Integers, Sequences, FiniteSets, TLC

(***************************************************************************)
(* JavaScript string primitives used by the tools.                         *)
(***************************************************************************)

\* null / undefined of a string-valued expression
Null == "<null>"

Char(s, i) == SubSeq(s, i, i)

SetMin(S) == CHOOSE x \in S : \A y \in S : x <= y

SetMax(S) == CHOOSE x \in S : \A y \in S : x >= y

\* the least index of a set of indices, 0 when there is none
MinOrZero(S) == IF S = {} THEN 0 ELSE SetMin(S)

Digits == {"0", "1", "2", "3", "4", "5", "6", "7", "8", "9"}

UpperCase == "ABCDEFGHIJKLMNOPQRSTUVWXYZ"

LowerCase == "abcdefghijklmnopqrstuvwxyz"

\* the characters of a SemVer identifier, in UTF-16 code unit order
CodeOrder == "-0123456789ABCDEFGHIJKLMNOPQRSTUVWXYZabcdefghijklmnopqrstuvwxyz"

IsDigit(c) == c \in Digits

IsLetter(c) ==
    \E i \in 1..26 : c = Char(UpperCase, i) \/ c = Char(LowerCase, i)

\* \s of a JavaScript regular expression, and the characters trim() removes
IsSpace(c) == c \in {" ", "\t", "\n", "\r"}

TrimSpan(s, idx) == IF idx = {} THEN "" ELSE SubSeq(s, SetMin(idx), SetMax(idx))

\* String.prototype.trim
trim(s) == TrimSpan(s, {i \in 1..Len(s) : ~IsSpace(Char(s, i))})

\* String.prototype.startsWith
startsWith(s, p) == Len(s) >= Len(p) /\ SubSeq(s, 1, Len(p)) = p

\* String.prototype.indexOf from position `from` (1-based; 0 when absent)
indexOf(s, p, from) ==
    MinOrZero({i \in from..(Len(s) - Len(p) + 1) : SubSeq(s, i, i + Len(p) - 1) = p})

\* String.prototype.includes
includes(s, p) == indexOf(s, p, 1) # 0

LowerChar(c) ==
    IF \E i \in 1..26 : c = Char(UpperCase, i)
    THEN Char(LowerCase, CHOOSE i \in 1..26 : c = Char(UpperCase, i))
    ELSE c

RECURSIVE toLowerCase(_)
\* String.prototype.toLowerCase
toLowerCase(s) ==
    IF s = "" THEN "" ELSE LowerChar(Head(s)) \o toLowerCase(Tail(s))

RECURSIVE split(_, _)
SplitAt(s, sep, k) ==
    IF k = 0 THEN <<s>>
    ELSE <<SubSeq(s, 1, k - 1)>> \o split(SubSeq(s, k + 1, Len(s)), sep)

\* String.prototype.split on a one-character separator
split(s, sep) == SplitAt(s, sep, indexOf(s, sep, 1))

RECURSIVE join(_, _)
\* Array.prototype.join
join(parts, sep) ==
    IF parts = <<>> THEN ""
    ELSE IF Len(parts) = 1 THEN parts[1]
    ELSE parts[1] \o sep \o join(Tail(parts), sep)

AllDigits(s) == \A i \in 1..Len(s) : IsDigit(Char(s, i))

DigitValue(c) == CHOOSE n \in 0..9 : Char("0123456789", n + 1) = c

RECURSIVE StrToNat(_)
\* Number(s) of a string of digits
StrToNat(s) ==
    IF s = "" THEN 0
    ELSE 10 * StrToNat(SubSeq(s, 1, Len(s) - 1)) + DigitValue(Char(s, Len(s)))

RECURSIVE NatToStr(_)
\* String(n) of a non-negative integer
NatToStr(n) ==
    IF n < 10 THEN Char("0123456789", n + 1)
    ELSE NatToStr(n \div 10) \o Char("0123456789", (n % 10) + 1)

CodeOf(c) == CHOOSE i \in 1..Len(CodeOrder) : Char(CodeOrder, i) = c

RECURSIVE StrLess(_, _)
\* a < b of two strings (code unit order)
StrLess(a, b) ==
    IF b = "" THEN FALSE
    ELSE IF a = "" THEN TRUE
    ELSE IF Head(a) = Head(b) THEN StrLess(Tail(a), Tail(b))
    ELSE CodeOf(Head(a)) < CodeOf(Head(b))

(***************************************************************************)
(* semver-ts as the tools use it: valid, prerelease, inc, gt.              *)
(***************************************************************************)

IsIdChar(c) == IsDigit(c) \/ IsLetter(c) \/ c = "-"

AllIdChars(s) == \A i \in 1..Len(s) : IsIdChar(Char(s, i))

\* 0|[1-9]\d*
IsNumericId(s) == Len(s) > 0 /\ AllDigits(s) /\ (Len(s) = 1 \/ Head(s) # "0")

\* a numeric identifier, or \d*[a-zA-Z-][a-zA-Z0-9-]*
IsPrereleaseId(s) ==
    IsNumericId(s) \/ (Len(s) > 0 /\ AllIdChars(s) /\ ~AllDigits(s))

\* [0-9A-Za-z-]+
IsBuildId(s) == Len(s) > 0 /\ AllIdChars(s)

NoSemVer == [ok |-> FALSE, major |-> 0, minor |-> 0, patch |-> 0, prerelease |-> <<>>]

\* the part of s before index k; all of s when k = 0
Before(s, k) == IF k = 0 THEN s ELSE SubSeq(s, 1, k - 1)

\* the dot-separated identifiers of s after index k; none when k = 0
IdsAfter(s, k) == IF k = 0 THEN <<>> ELSE split(SubSeq(s, k + 1, Len(s)), ".")

SemVerOf(main, pre, build) ==
    IF /\ Len(main) = 3
       /\ \A i \in 1..Len(main) : IsNumericId(main[i])
       /\ \A i \in 1..Len(pre) : IsPrereleaseId(pre[i])
       /\ \A i \in 1..Len(build) : IsBuildId(build[i])
    THEN [ok |-> TRUE, major |-> StrToNat(main[1]), minor |-> StrToNat(main[2]),
          patch |-> StrToNat(main[3]), prerelease |-> pre]
    ELSE NoSemVer

\* X.Y.Z, then the pre-release after the first "-"
SemVerCore(core, build) ==
    SemVerOf(split(Before(core, indexOf(core, "-", 1)), "."),
             IdsAfter(core, indexOf(core, "-", 1)), build)

\* the build metadata after the first "+"
SemVerPlain(s) == SemVerCore(Before(s, indexOf(s, "+", 1)), IdsAfter(s, indexOf(s, "+", 1)))

StripV(s) == IF startsWith(s, "v") THEN Tail(s) ELSE s

\* new SemVer(version): the parsed version, ok = FALSE where the library
\* rejects the string (parse returns null, the constructor throws)
SemVer(version) == SemVerPlain(StripV(trim(version)))

\* SemVer.format(): the canonical string, build metadata dropped
format(v) ==
    NatToStr(v.major) \o "." \o NatToStr(v.minor) \o "." \o NatToStr(v.patch)
        \o (IF v.prerelease = <<>> THEN "" ELSE "-" \o join(v.prerelease, "."))

FormatOrNull(v) == IF v.ok THEN format(v) ELSE Null

\* valid(version): the canonical string, or null
valid(version) == FormatOrNull(SemVer(version))

\* prerelease(version): the pre-release identifiers; <<>> stands for null
prerelease(version) == SemVer(version).prerelease

\* compareIdentifiers(a, b): -1, 0 or 1
compareIdentifiers(a, b) ==
    IF AllDigits(a) /\ AllDigits(b)
    THEN (IF StrToNat(a) = StrToNat(b) THEN 0
          ELSE IF StrToNat(a) < StrToNat(b) THEN -1 ELSE 1)
    ELSE IF a = b THEN 0
    ELSE IF AllDigits(a) THEN -1
    ELSE IF AllDigits(b) THEN 1
    ELSE IF StrLess(a, b) THEN -1 ELSE 1

RECURSIVE comparePreFrom(_, _, _)
comparePreFrom(p, q, i) ==
    IF i > Len(p) /\ i > Len(q) THEN 0
    ELSE IF i > Len(q) THEN 1
    ELSE IF i > Len(p) THEN -1
    ELSE IF p[i] = q[i] THEN comparePreFrom(p, q, i + 1)
    ELSE compareIdentifiers(p[i], q[i])

\* SemVer.comparePre
comparePre(a, b) ==
    IF a.prerelease # <<>> /\ b.prerelease = <<>> THEN -1
    ELSE IF a.prerelease = <<>> /\ b.prerelease # <<>> THEN 1
    ELSE comparePreFrom(a.prerelease, b.prerelease, 1)

\* SemVer.compareMain
compareMain(a, b) ==
    IF a.major # b.major THEN (IF a.major < b.major THEN -1 ELSE 1)
    ELSE IF a.minor # b.minor THEN (IF a.minor < b.minor THEN -1 ELSE 1)
    ELSE IF a.patch # b.patch THEN (IF a.patch < b.patch THEN -1 ELSE 1)
    ELSE 0

\* SemVer.compare
compare(a, b) == IF compareMain(a, b) # 0 THEN compareMain(a, b) ELSE comparePre(a, b)

\* gt(a, b) throws a TypeError when either string is no version
gtThrows(a, b) == ~SemVer(a).ok \/ ~SemVer(b).ok

\* gt(a, b)
gt(a, b) == compare(SemVer(a), SemVer(b)) > 0

NumericIds(p) == {i \in 1..Len(p) : AllDigits(p[i])}

\* the last numeric identifier is incremented, or 0 is appended
BumpPre(p, nums) ==
    IF p = <<>> THEN <<"0">>
    ELSE IF nums = {} THEN Append(p, "0")
    ELSE [p EXCEPT ![SetMax(nums)] = NatToStr(StrToNat(@) + 1)]

\* a given identifier restarts the series at <identifier>.0 unless it already
\* leads the pre-release and a number follows it
NamePre(bumped, identifier) ==
    IF identifier = Null THEN bumped
    ELSE IF bumped[1] = identifier /\ Len(bumped) >= 2 /\ AllDigits(bumped[2]) THEN bumped
    ELSE <<identifier, "0">>

\* SemVer.inc("pre", identifier)
incPre(v, identifier) ==
    [v EXCEPT !.prerelease = NamePre(BumpPre(@, NumericIds(@)), identifier)]

Bare(v) == [v EXCEPT !.prerelease = <<>>]

\* SemVer.inc(release, identifier)
incSemVer(v, release, identifier) ==
    CASE release = "premajor" ->
           incPre([Bare(v) EXCEPT !.major = @ + 1, !.minor = 0, !.patch = 0], identifier)
      [] release = "preminor" ->
           incPre([Bare(v) EXCEPT !.minor = @ + 1, !.patch = 0], identifier)
      [] release = "prepatch" ->
           incPre([Bare(v) EXCEPT !.patch = @ + 1], identifier)
      [] release = "prerelease" ->
           IF v.prerelease = <<>>
           THEN incPre([Bare(v) EXCEPT !.patch = @ + 1], identifier)
           ELSE incPre(v, identifier)
      [] release = "major" ->
           IF v.minor # 0 \/ v.patch # 0 \/ v.prerelease = <<>>
           THEN [Bare(v) EXCEPT !.major = @ + 1, !.minor = 0, !.patch = 0]
           ELSE [Bare(v) EXCEPT !.minor = 0, !.patch = 0]
      [] release = "minor" ->
           IF v.patch # 0 \/ v.prerelease = <<>>
           THEN [Bare(v) EXCEPT !.minor = @ + 1, !.patch = 0]
           ELSE [Bare(v) EXCEPT !.patch = 0]
      [] release = "patch" ->
           IF v.prerelease = <<>> THEN [Bare(v) EXCEPT !.patch = @ + 1] ELSE Bare(v)

IncOf(v, release, identifier) ==
    IF v.ok THEN format(incSemVer(v, release, identifier)) ELSE Null

\* inc(version, release, {}, identifier): the incremented version, or null
inc(version, release, identifier) == IncOf(SemVer(version), release, identifier)

(***************************************************************************)
(* tools/release-utils.ts: checkVersionCoherency                           *)
(***************************************************************************)

\* the test for the key alone, whatever its value
HasKey(versions, key) == \E e \in versions : e.key = key

\* versions[key] is truthy: versions.json is a set of [key, value] pairs
HasVersion(versions, key) == \E e \in versions : e.key = key /\ e.value # ""

\* checkVersionCoherency(info) returns (TRUE) or throws (FALSE)
\* the coherency check without the comparison of the two version fields
checkVersionKeyOnly(info) == HasVersion(info.versions, info.version)

checkVersionCoherency(info) ==
    /\ info.version = info.pkgVersion
    /\ HasVersion(info.versions, info.version)

(***************************************************************************)
(* tools/release-utils.ts: parseChangelog                                  *)
(***************************************************************************)

\* line.match(/^##(?!#)\s*(.*)/)
IsHeading(line) == startsWith(line, "##") /\ (Len(line) < 3 \/ Char(line, 3) # "#")

\* match[1].trim()
HeaderText(line) == trim(SubSeq(line, 3, Len(line)))

\* the last index before the first of `stops`, the end of s when there is none
RunEnd(s, stops) == IF stops = {} THEN Len(s) ELSE SetMin(stops) - 1

\* [0-9] in the place of [0-9]+
DigitRunOne(s, p) == p

\* end of the run of digits that starts at p
DigitRunEnd(s, p) == RunEnd(s, {i \in p..Len(s) : ~IsDigit(Char(s, i))})

DotDigitAt(s, e) == e + 2 <= Len(s) /\ Char(s, e + 1) = "." /\ IsDigit(Char(s, e + 2))

CoreEnd3(s, e2) == IF DotDigitAt(s, e2) THEN DigitRunEnd(s, e2 + 2) ELSE 0

CoreEnd2(s, e1) == IF DotDigitAt(s, e1) THEN CoreEnd3(s, DigitRunEnd(s, e1 + 2)) ELSE 0

\* [0-9]+\.[0-9]+\.[0-9]+ matched at p: the index of its last character, or 0
CoreEndAt(s, p) == IF IsDigit(Char(s, p)) THEN CoreEnd2(s, DigitRunEnd(s, p)) ELSE 0

IsSuffixChar(c) == IsDigit(c) \/ IsLetter(c) \/ c = "." \/ c = "-"

\* (?:[-+._][0-9A-Za-z.-]+)? matched after index e: the index of its last
\* character (e when the optional group matches nothing)
SuffixEnd(s, e) ==
    IF e + 2 <= Len(s) /\ Char(s, e + 1) \in {"-", "+", ".", "_"} /\ IsSuffixChar(Char(s, e + 2))
    THEN RunEnd(s, {i \in (e + 2)..Len(s) : ~IsSuffixChar(Char(s, i))})
    ELSE e

TokenFrom(text, p) ==
    IF p = 0 THEN Null ELSE SubSeq(text, p, SuffixEnd(text, CoreEndAt(text, p)))

\* headerText.match(/(?:\(|\[)?\s*v?([0-9]+\.[0-9]+\.[0-9]+(?:[-+._][0-9A-Za-z.-]+)?)\s*(?:\)|\])?/)
\* : capture group 1 of the leftmost match, or null
versionMatch(text) ==
    TokenFrom(text, MinOrZero({p \in 1..Len(text) : CoreEndAt(text, p) # 0}))

InvalidHeaderWarning(header) ==
    "CHANGELOG.md: Header \"" \o header \o "\" does not contain a valid SemVer identifier."

MissingUnreleasedWarning ==
    "CHANGELOG.md: Missing [Unreleased] section; creating an empty placeholder."

EmptyUnreleasedWarning == "CHANGELOG.md: Unreleased section is empty."

\* the classification with the test for "unreleased" first
ClassifyUnreleasedFirst(headerText, token) ==
    IF includes(toLowerCase(headerText), "unreleased") THEN "unreleased"
    ELSE IF token # Null THEN valid(trim(token))
    ELSE Null

\* lines 96-109: the version of a heading with text headerText and token
\* versionMatch[1]
ClassifyHeading(headerText, token) ==
    IF token # Null THEN valid(trim(token))
    ELSE IF includes(toLowerCase(headerText), "unreleased") THEN "unreleased"
    ELSE Null

\* the version a heading line is classified with
HeadingVersion(line) == ClassifyHeading(HeaderText(line), versionMatch(HeaderText(line)))

\* lines 97-106: the warning for a token that is no valid version
TokenWarnings(header, token) ==
    IF token # Null /\ valid(trim(token)) = Null
    THEN <<InvalidHeaderWarning(header)>>
    ELSE <<>>

\* the warnings a heading line adds
HeadingWarnings(line) == TokenWarnings(trim(line), versionMatch(HeaderText(line)))

\* entries.push({ ...currentEntry, content: currentEntry.content.trim() });
\* `current` is <<>> for null and <<entry>> otherwise
Flush(entries, current) ==
    IF current = <<>> THEN entries
    ELSE Append(entries, [current[1] EXCEPT !.content = trim(@)])

ParseStart ==
    [entries |-> <<>>, current |-> <<>>, description |-> "", warnings |-> <<>>,
     firstHeaderFound |-> FALSE]

\* one iteration of the loop over the lines (lines 83-117)
ParseLine(st, line) ==
    IF IsHeading(line)
    THEN [st EXCEPT !.firstHeaderFound = TRUE,
                    !.entries = Flush(st.entries, st.current),
                    !.warnings = @ \o HeadingWarnings(line),
                    !.current = <<[version |-> HeadingVersion(line),
                                   header |-> trim(line), content |-> ""]>>]
    ELSE IF st.current # <<>>
    THEN [st EXCEPT !.current = <<[@[1] EXCEPT !.content = @ \o line \o "\n"]>>]
    ELSE IF ~st.firstHeaderFound /\ ~startsWith(line, "# ")
    THEN [st EXCEPT !.description = @ \o line \o "\n"]
    ELSE st

RECURSIVE ParseLines(_, _, _)
ParseLines(st, lines, i) ==
    IF i > Len(lines) THEN st ELSE ParseLines(ParseLine(st, lines[i]), lines, i + 1)

\* a "\r" before the line break belongs to the separator /\r?\n/
DropCR(raw) ==
    [i \in 1..Len(raw) |->
        IF i < Len(raw) /\ Len(raw[i]) > 0 /\ Char(raw[i], Len(raw[i])) = "\r"
        THEN SubSeq(raw[i], 1, Len(raw[i]) - 1)
        ELSE raw[i]]

\* content.split(/\r?\n/)
SplitLines(content) == DropCR(split(content, "\n"))

TitleAt(lines, k) == IF k = 0 THEN "Changelog" ELSE trim(lines[k])

\* lines.find((line) => line.startsWith("# "))?.trim() || "Changelog"
TitleOf(lines) == TitleAt(lines, MinOrZero({i \in 1..Len(lines) : startsWith(lines[i], "# ")}))

\* entries.some((e) => e.version === "unreleased")
HasUnreleased(entries) == \E i \in 1..Len(entries) : entries[i].version = "unreleased"

\* index of entries.find((e) => e.version === "unreleased"), 0 for undefined
FindUnreleased(entries) ==
    MinOrZero({i \in 1..Len(entries) : entries[i].version = "unreleased"})

UnreleasedEntry(content) ==
    [version |-> "unreleased", header |-> "## [Unreleased]", content |-> content]

\* the entry still open when the loop ends is pushed (lines 119-121)
FlushLast(st) == [st EXCEPT !.entries = Flush(st.entries, st.current)]

\* the promotion without description = ""
PromoteKeepDescription(st) ==
    IF trim(st.description) # "" /\ ~HasUnreleased(st.entries)
    THEN [st EXCEPT !.entries = <<UnreleasedEntry(trim(st.description))>> \o @]
    ELSE st

\* top-level content before the first heading becomes the unreleased entry
\* (lines 123-134)
Promote(st) ==
    IF trim(st.description) # "" /\ ~HasUnreleased(st.entries)
    THEN [st EXCEPT !.entries = <<UnreleasedEntry(trim(st.description))>> \o @,
                    !.description = ""]
    ELSE st

\* push in the place of unshift
RecoverAppend(st) ==
    IF ~HasUnreleased(st.entries)
    THEN [st EXCEPT !.warnings = Append(@, MissingUnreleasedWarning),
                    !.entries = Append(@, UnreleasedEntry(""))]
    ELSE st

\* a missing unreleased entry is created empty, with a warning (lines 135-142)
Recover(st) ==
    IF ~HasUnreleased(st.entries)
    THEN [st EXCEPT !.warnings = Append(@, MissingUnreleasedWarning),
                    !.entries = <<UnreleasedEntry("")>> \o @]
    ELSE st

\* the warning for an empty unreleased entry (lines 144-147)
WarnEmpty(st) ==
    IF HasUnreleased(st.entries) /\ Len(trim(st.entries[FindUnreleased(st.entries)].content)) = 0
    THEN [st EXCEPT !.warnings = Append(@, EmptyUnreleasedWarning)]
    ELSE st

\* the value parseChangelog returns (line 149)
ParseResult(lines, st) ==
    [title |-> TitleOf(lines), description |-> trim(st.description),
     entries |-> st.entries, warnings |-> st.warnings]

ParseText(lines) ==
    ParseResult(lines, WarnEmpty(Recover(Promote(FlushLast(ParseLines(ParseStart, lines, 1))))))

\* parseChangelog(), of the text read from CHANGELOG.md
parseChangelog(content) == ParseText(SplitLines(content))

(***************************************************************************)
(* tools/release-utils.ts: updateChangelog                                 *)
(***************************************************************************)

\* parsed.entries.filter((e) => e.version !== "unreleased")
OtherEntries(entries) == SelectSeq(entries, LAMBDA e : e.version # "unreleased")

RECURSIVE RenderEntries(_)
\* the loop over newEntries (lines 192-198)
RenderEntries(entries) ==
    IF entries = <<>> THEN ""
    ELSE entries[1].header \o "\n\n" \o entries[1].content \o "\n\n"
            \o RenderEntries(Tail(entries))

\* the entry the release creates (lines 165-170)
NewEntry(parsed, nextVer, today) ==
    [version |-> nextVer,
     header  |-> "## [" \o nextVer \o "] - " \o today,
     content |-> parsed.entries[FindUnreleased(parsed.entries)].content]

\* the guard without the test of the content
updateChangelogThrowsIfMissing(parsed) == ~HasUnreleased(parsed.entries)

\* updateChangelog throws "No unreleased changes found in CHANGELOG.md."
updateChangelogThrows(parsed) ==
    IF HasUnreleased(parsed.entries)
    THEN parsed.entries[FindUnreleased(parsed.entries)].content = ""
    ELSE TRUE

\* the text updateChangelog writes to CHANGELOG.md (lines 172-203)
updateChangelogText(parsed, nextVer, today) ==
    trim(parsed.title \o "\n\n"
         \o (IF parsed.description # "" THEN parsed.description \o "\n\n" ELSE "")
         \o "## [Unreleased]" \o "\n\n"
         \o RenderEntries(<<NewEntry(parsed, nextVer, today)>> \o OtherEntries(parsed.entries)))
      \o "\n"

\* the value updateChangelog returns: newEntry.content
updateChangelog(parsed, nextVer, today) == NewEntry(parsed, nextVer, today).content

(***************************************************************************)
(* State.                                                                  *)
(***************************************************************************)

VARIABLES
    pc,               \* position in main() / in the parse-write-parse round trip
    args,             \* command line: versionArg, preid, strict, yes, noPush
    manifestJson,     \* manifest.json: id, version, minAppVersion
    packageJson,      \* package.json: version
    versionsJson,     \* versions.json: set of [key, value]
    changelogFile,    \* CHANGELOG.md: its text
    initial,          \* the files, or the plugin's inputs, as they were at the start
    meta,             \* const meta = await getProjectInfo()
    parsedChangelog,  \* const parsedChangelog = await parseChangelog()
    nextVersion,      \* let nextVersion
    branches,         \* what getDefaultBranch / getCurrentBranch answer in this repository
    confirmation,     \* the confirmation step: reached, and what it was answered
    changelog,        \* const changelog = await updateChangelog(...)
    reparsed,         \* parseChangelog() of the text updateChangelog wrote
    exitCode,         \* process exit code; -1 while the process runs
    stdout,           \* log.warn messages (console.log), without the mark
    stderr,           \* log.error messages (console.error), without the mark
    cmds,             \* commands handed to exec, in order
    writes,           \* files handed to writeFile, in order
    steps,            \* steps of the release entered so far, in order
    settings,         \* the plugin's this.settings: removalRules, isRegex
    rules,            \* the plugin's this.rules, the compiled rules
    event,            \* the ClipboardEvent handed to onPaste
    editor,           \* app.workspace.activeEditor?.editor and what was inserted
    tab               \* the settings tab: its rule rows, handlers and test fields

files == <<manifestJson, packageJson, versionsJson, changelogFile>>

locals == <<meta, parsedChangelog, nextVersion, branches, confirmation, changelog>>

output == <<exitCode, stdout, stderr>>

\* the variables of the release tool
release == <<args, files, initial, locals, reparsed, output, cmds, writes, steps>>

\* the variables of the paste cleaner plugin
plugin == <<settings, rules, event, editor, tab>>

vars == <<pc, release, plugin>>

NoSettings == [removalRules |-> <<>>, isRegex |-> <<>>]

NoEvent == [defaultPrevented |-> FALSE, types |-> <<>>, plainText |-> ""]

NoEditor == [active |-> FALSE, inserted |-> <<>>]

NoHandler == [kind |-> "none", index |-> 0, shown |-> "", target |-> ""]

NoTab == [rows |-> <<>>, saving |-> <<>>, trySource |-> "", tryDest |-> "",
          handled |-> 0, last |-> NoHandler]

\* the plugin takes no part in a run of the release tool
PluginNotLoaded ==
    /\ settings = NoSettings
    /\ rules = <<>>
    /\ event = NoEvent
    /\ editor = NoEditor
    /\ tab = NoTab

\* new Date().toISOString().split("T")[0] at the time of the run
Today == "2025-01-01"

NoParse == [title |-> "", description |-> "", entries |-> <<>>, warnings |-> <<>>]

NoArgs == [versionArg |-> Null, preid |-> Null, strict |-> FALSE, yes |-> FALSE,
           noPush |-> FALSE]

NoManifest == [id |-> "", version |-> "", minAppVersion |-> ""]

NoMeta == [id |-> "", version |-> "", minAppVersion |-> "", pkgVersion |-> "",
           versions |-> {}]

NoBranches == [defaultBranch |-> Null, currentBranch |-> Null]

NotAsked == [reached |-> FALSE, isTTY |-> FALSE, response |-> FALSE]

(***************************************************************************)
(* The changelog round trip: parseChangelog, updateChangelog, and          *)
(* parseChangelog again on the text written, for every changelog of up to  *)
(* MaxLines lines drawn from Lines.                                        *)
(***************************************************************************)

MaxLines == 3

Lines ==
    {"# Changelog", "", "- a", "- b", "## [Unreleased]", "## Notes", " ## Notes",
     "## [1.0.0] - 2024-01-01", "## v1.1.0-rc.1"}

RECURSIVE TextsOfLength(_)
TextsOfLength(n) ==
    IF n = 1 THEN Lines
    ELSE {t \o "\n" \o l : t \in TextsOfLength(n - 1), l \in Lines}

ChangelogTexts == UNION {TextsOfLength(n) : n \in 1..MaxLines}

\* resolved versions handed to updateChangelog
NextVersions == {"1.1.0", "2.0.0-beta0"}

RoundTripInit ==
    /\ pc = "parse"
    /\ changelogFile \in ChangelogTexts
    /\ nextVersion \in NextVersions
    /\ initial = [changelog |-> changelogFile]
    /\ parsedChangelog = NoParse
    /\ reparsed = NoParse
    /\ changelog = Null
    /\ args = NoArgs
    /\ manifestJson = NoManifest
    /\ packageJson = [version |-> ""]
    /\ versionsJson = {}
    /\ meta = NoMeta
    /\ branches = NoBranches
    /\ confirmation = NotAsked
    /\ exitCode = -1
    /\ stdout = <<>>
    /\ stderr = <<>>
    /\ cmds = <<>>
    /\ writes = <<>>
    /\ steps = <<>>
    /\ PluginNotLoaded

\* parseChangelog() reads CHANGELOG.md
RoundTripParse ==
    /\ pc = "parse"
    /\ parsedChangelog' = parseChangelog(changelogFile)
    /\ pc' = "update"
    /\ UNCHANGED <<plugin, args, files, initial, meta, nextVersion, branches, confirmation,
                   changelog, reparsed, output, cmds, writes, steps>>

\* updateChangelog(parsed, nextVersion) writes CHANGELOG.md and returns the
\* content of the new entry
RoundTripUpdate ==
    /\ pc = "update"
    /\ ~updateChangelogThrows(parsedChangelog)
    /\ changelogFile' = updateChangelogText(parsedChangelog, nextVersion, Today)
    /\ changelog' = updateChangelog(parsedChangelog, nextVersion, Today)
    /\ writes' = Append(writes, "CHANGELOG.md")
    /\ pc' = "reparse"
    /\ UNCHANGED <<plugin, args, manifestJson, packageJson, versionsJson, initial, meta,
                   parsedChangelog, nextVersion, branches, confirmation, reparsed,
                   output, cmds, steps>>

\* updateChangelog throws before anything is written
RoundTripUpdateThrows ==
    /\ pc = "update"
    /\ updateChangelogThrows(parsedChangelog)
    /\ stderr' = Append(stderr, "No unreleased changes found in CHANGELOG.md.")
    /\ pc' = "thrown"
    /\ UNCHANGED <<plugin, args, files, initial, locals, reparsed, exitCode, stdout, cmds,
                   writes, steps>>

\* parseChangelog() of the text just written
RoundTripReparse ==
    /\ pc = "reparse"
    /\ reparsed' = parseChangelog(changelogFile)
    /\ pc' = "reparsed"
    /\ UNCHANGED <<plugin, args, files, initial, locals, output, cmds, writes, steps>>

RoundTripNext ==
    \/ RoundTripParse
    \/ RoundTripUpdate
    \/ RoundTripUpdateThrows
    \/ RoundTripReparse

SpecChangelog == RoundTripInit /\ [][RoundTripNext]_vars

\* ------------------------------------------------------------------------
\* Changelogs with one version heading in each of the styles the heading
\* pattern accepts
\* ------------------------------------------------------------------------

HeadingVersions == {"1.0.0", "10.2.30", "0.0.1"}

\* the version in brackets, in parentheses, bare, with a v, and both
Styled(v) == {"[" \o v \o "]", "(" \o v \o ")", v, "v" \o v, "[v" \o v \o "]"}

HeadingTails == {"", " - 2024-01-01"}

HeadingLines(v) ==
    {"##" \o sp \o s \o t : sp \in {" ", ""}, s \in Styled(v), t \in HeadingTails}

\* what stands before and after the heading in the file
HeadingPrefixes == {"", "# Changelog\n\n", "## [Unreleased]\n\n- a\n\n"}

HeadingSuffixes == {"", "\n\n- b\n", "\n\n- b\n\n## [0.0.1] - 2023-01-01\n\n- c\n"}

HeadingInit ==
    /\ pc = "parse"
    /\ \E v \in HeadingVersions : \E h \in HeadingLines(v) :
       \E p \in HeadingPrefixes : \E q \in HeadingSuffixes :
          /\ changelogFile = p \o h \o q
          /\ initial = [changelog |-> changelogFile, heading |-> h, version |-> v]
    /\ nextVersion = "99.0.0"
    /\ parsedChangelog = NoParse
    /\ reparsed = NoParse
    /\ changelog = Null
    /\ args = NoArgs
    /\ manifestJson = NoManifest
    /\ packageJson = [version |-> ""]
    /\ versionsJson = {}
    /\ meta = NoMeta
    /\ branches = NoBranches
    /\ confirmation = NotAsked
    /\ exitCode = -1
    /\ stdout = <<>>
    /\ stderr = <<>>
    /\ cmds = <<>>
    /\ writes = <<>>
    /\ steps = <<>>
    /\ PluginNotLoaded

SpecHeading == HeadingInit /\ [][RoundTripNext]_vars

\* ------------------------------------------------------------------------
\* Changelogs with one heading that mixes a version token and the word
\* "unreleased", or has only one of them, or neither
\* ------------------------------------------------------------------------

\* heading lines, each with the token the pattern of line 95 captures in it
\* (Null for none)
MixedHeadings ==
    {[line |-> "## [Unreleased] 1.0.0",  token |-> "1.0.0"],
     [line |-> "## v2.0.0 (unreleased)", token |-> "2.0.0"],
     [line |-> "## Unreleased 1.0.0.1",  token |-> "1.0.0.1"],
     [line |-> "## [1.0.0.1]",           token |-> "1.0.0.1"],
     [line |-> "## 01.2.3",              token |-> "01.2.3"],
     [line |-> "## [Unreleased]",        token |-> Null],
     [line |-> "## UNRELEASED changes",  token |-> Null],
     [line |-> "## 1.2 unreleased",      token |-> Null],
     [line |-> "## Notes",               token |-> Null]}

ClassifyInit ==
    /\ pc = "parse"
    /\ \E h \in MixedHeadings : \E p \in HeadingPrefixes : \E q \in HeadingSuffixes :
          /\ changelogFile = p \o h.line \o q
          /\ initial = [changelog |-> changelogFile, heading |-> h.line, token |-> h.token]
    /\ nextVersion = "99.0.0"
    /\ parsedChangelog = NoParse
    /\ reparsed = NoParse
    /\ changelog = Null
    /\ args = NoArgs
    /\ manifestJson = NoManifest
    /\ packageJson = [version |-> ""]
    /\ versionsJson = {}
    /\ meta = NoMeta
    /\ branches = NoBranches
    /\ confirmation = NotAsked
    /\ exitCode = -1
    /\ stdout = <<>>
    /\ stderr = <<>>
    /\ cmds = <<>>
    /\ writes = <<>>
    /\ steps = <<>>
    /\ PluginNotLoaded

SpecClassify == ClassifyInit /\ [][RoundTripNext]_vars

\* ------------------------------------------------------------------------
\* updateChangelog() on parsed models given to it directly
\* ------------------------------------------------------------------------

MaxEntries == 3

WriterEntries ==
    {UnreleasedEntry(""), UnreleasedEntry("- a"),
     [version |-> "1.0.0", header |-> "## [1.0.0] - 2024-01-01", content |-> "- b"],
     [version |-> Null, header |-> "## Notes", content |-> ""]}

\* the entry lists of up to MaxEntries entries
EntryLists == UNION {[1..n -> WriterEntries] : n \in 0..MaxEntries}

ParsedModels ==
    {[title |-> "# Changelog", description |-> d, entries |-> es, warnings |-> <<>>] :
        d \in {"", "All notable changes."}, es \in EntryLists}

WriterInit ==
    /\ pc = "update"
    /\ parsedChangelog \in ParsedModels
    /\ nextVersion = "1.1.0"
    /\ changelogFile = "# Changelog\n"
    /\ initial = [changelog |-> changelogFile]
    /\ reparsed = NoParse
    /\ changelog = Null
    /\ args = NoArgs
    /\ manifestJson = NoManifest
    /\ packageJson = [version |-> ""]
    /\ versionsJson = {}
    /\ meta = NoMeta
    /\ branches = NoBranches
    /\ confirmation = NotAsked
    /\ exitCode = -1
    /\ stdout = <<>>
    /\ stderr = <<>>
    /\ cmds = <<>>
    /\ writes = <<>>
    /\ steps = <<>>
    /\ PluginNotLoaded

WriterNext ==
    \/ RoundTripUpdate
    \/ RoundTripUpdateThrows
    \/ RoundTripReparse

SpecWriter == WriterInit /\ [][WriterNext]_vars

(***************************************************************************)
(* tools/release.ts: main(), one action per step of the release.           *)
(***************************************************************************)

RECURSIVE replaceAll(_, _, _)
\* String.prototype.replace(/c/g, by) for a one-character pattern
replaceAll(s, c, by) ==
    IF s = "" THEN ""
    ELSE (IF Head(s) = c THEN by ELSE Head(s)) \o replaceAll(Tail(s), c, by)

\* a failing step: log.error(msg); process.exit(1)
exitError(msg) ==
    /\ stderr' = Append(stderr, msg)
    /\ exitCode' = 1
    /\ pc' = "done"

\* getProjectInfo(): the message of the error it throws, or null
getProjectInfoError(manifest, pkg) ==
    IF manifest.version = "" THEN "No version found in manifest.json"
    ELSE IF manifest.id = "" THEN "No id found in manifest.json"
    ELSE IF manifest.minAppVersion = "" THEN "No minAppVersion found in manifest.json"
    ELSE IF pkg.version = "" THEN "No version found in package.json"
    ELSE Null

\* getProjectInfo(): the value it returns
getProjectInfo(manifest, pkg, versions) ==
    [id |-> manifest.id, version |-> manifest.version,
     minAppVersion |-> manifest.minAppVersion, pkgVersion |-> pkg.version,
     versions |-> versions]

\* the message of the error checkVersionCoherency throws
coherencyError(info) ==
    IF info.version # info.pkgVersion
    THEN "Version mismatch: manifest.json has " \o info.version
            \o ", but package.json has " \o info.pkgVersion \o "."
    ELSE "Version " \o info.version \o " not found in versions.json."

releaseTypes ==
    {"major", "minor", "patch", "premajor", "preminor", "prepatch", "prerelease"}

EmptyPlaceholderWarning ==
    "CHANGELOG.md: [Unreleased] section is empty; using placeholder entry for release notes."

UnableToLocateWarning == "CHANGELOG.md: Unable to locate or create [Unreleased] section."

\* lines 251-263: an unreleased entry is put first when find() returned none
WithUnreleased(parsed) ==
    IF HasUnreleased(parsed.entries) THEN parsed
    ELSE [parsed EXCEPT !.entries = <<UnreleasedEntry("")>> \o @]

\* unreleasedEntry.content.trim().length === 0
UnreleasedIsEmpty(parsed) ==
    trim(parsed.entries[FindUnreleased(parsed.entries)].content) = ""

\* the ensure step without the placeholder assignment
WithoutPlaceholder(parsed) == parsed

\* unreleasedEntry.content = "- _No changes recorded._" (the entry find()
\* returned is changed in place)
WithPlaceholder(parsed) ==
    IF UnreleasedIsEmpty(parsed)
    THEN [parsed EXCEPT !.entries[FindUnreleased(parsed.entries)].content =
                            "- _No changes recorded._"]
    ELSE parsed

\* the warnings of lines 250-273
EnsureWarnings(parsed) ==
    (IF HasUnreleased(parsed.entries) THEN <<>> ELSE <<UnableToLocateWarning>>)
        \o (IF UnreleasedIsEmpty(WithUnreleased(parsed))
            THEN <<EmptyPlaceholderWarning>> ELSE <<>>)

\* the classification by the keyword alone
isPreReleaseKeyword(releaseType, current) == startsWith(releaseType, "pre")

\* releaseType.startsWith("pre") || prerelease(current)
isPreRelease(releaseType, current) ==
    startsWith(releaseType, "pre") \/ prerelease(current) # <<>>

\* defaultBranch && currentBranch && currentBranch === defaultBranch
OnDefaultBranch(b) ==
    /\ b.defaultBranch \notin {Null, ""}
    /\ b.currentBranch \notin {Null, ""}
    /\ b.currentBranch = b.defaultBranch

\* the resolution without valid(): the argument itself is the next version
resolveVersionLoose(versionArg, current, preid) ==
    IF versionArg \in releaseTypes THEN inc(current, versionArg, preid)
    ELSE versionArg

\* lines 286-309: inc() for a keyword, valid() for anything else
resolveVersion(versionArg, current, preid) ==
    IF versionArg \in releaseTypes THEN inc(current, versionArg, preid)
    ELSE valid(versionArg)

\* the "." the pattern /\.(?=\d+$)/ matches: the one followed by digits up
\* to the end of the string; 0 when there is none
DotBeforeLastDigits(s) ==
    MinOrZero({k \in 1..(Len(s) - 1) :
                  Char(s, k) = "." /\ AllDigits(SubSeq(s, k + 1, Len(s)))})

RemoveChar(s, k) == IF k = 0 THEN s ELSE SubSeq(s, 1, k - 1) \o SubSeq(s, k + 1, Len(s))

\* the replacement without the prerelease(nextVersion) condition
bratNormalizeAlways(version) == RemoveChar(version, DotBeforeLastDigits(version))

\* lines 316-318, the BRAT normalization of a pre-release version
bratNormalize(version) ==
    IF prerelease(version) # <<>>
    THEN RemoveChar(version, DotBeforeLastDigits(version))
    ELSE version

\* the filter with gte() in place of gt()
IsHigherOrEqual(e, next) ==
    /\ e.version \notin {Null, ""}
    /\ e.version # "unreleased"
    /\ compare(SemVer(e.version), SemVer(next)) >= 0

\* (e) => e.version && e.version !== "unreleased" && gt(e.version, nextVersion)
IsHigher(e, next) ==
    /\ e.version \notin {Null, ""}
    /\ e.version # "unreleased"
    /\ gt(e.version, next)

\* parsedChangelog.entries.filter(...) of line 323
higherVersions(entries, next) == SelectSeq(entries, LAMBDA e : IsHigher(e, next))

\* gt() is reached with a next version that is no version: it throws
higherVersionsThrows(entries, next) ==
    \E i \in 1..Len(entries) :
        /\ entries[i].version \notin {Null, "", "unreleased"}
        /\ gtThrows(entries[i].version, next)

VersionsOf(entries) == [i \in 1..Len(entries) |-> entries[i].version]

ConflictError(higher) ==
    "Changelog contains versions higher than the target version: "
        \o join(VersionsOf(higher), ", ")

\* the projects a run starts in: manifest.json, package.json, versions.json
Project(manifestVersion, minAppVersion, pkgVersion, keys) ==
    [manifest |-> [id |-> "paste-cleaner", version |-> manifestVersion,
                   minAppVersion |-> minAppVersion],
     package  |-> [version |-> pkgVersion],
     versions |-> {[key |-> k, value |-> "1.5.0"] : k \in keys}]

Projects ==
    {Project("1.0.0", "1.5.0", "1.0.0", {"1.0.0"}),
     Project("1.0.0", "1.5.0", "1.0.0", {"1.0.0", "1.0.1"}),
     Project("1.0.1-beta0", "1.5.0", "1.0.1-beta0", {"1.0.0", "1.0.1-beta0"}),
     Project("1.0.0-beta9", "1.5.0", "1.0.0-beta9", {"1.0.0-beta9"}),
     Project("1.0.0", "1.5.0", "1.0.1", {"1.0.0"}),
     Project("1.0.0", "1.5.0", "1.0.0", {"0.9.0"}),
     Project("1.0.0", "", "1.0.0", {"1.0.0"}),
     [Project("1.0.0", "1.5.0", "1.0.0", {"1.0.0"})
        EXCEPT !.versions = @ \cup {[key |-> "1.0.1", value |-> ""]}]}

\* the texts of CHANGELOG.md a run starts with
ReleaseChangelogs ==
    {"# Changelog\n\n## [Unreleased]\n\n- a\n\n## [1.0.0] - 2024-01-01\n\n- b\n",
     "# Changelog\n\n## [1.0.0] - 2024-01-01\n\n- b\n",
     "# Changelog\n\n## [Unreleased]\n\n## [1.0.0] - 2024-01-01\n\n- b\n",
     "## [Unreleased]\n- a\n## [1.1.0]\n- c\n## Notes\n- n\n## [1.0.0]\n- b",
     "## [Unreleased]\n- say \"hi\"\n## [1.0.0.1]\n- b\n",
     "## [Unreleased]\n- a\n## [1.0.1-beta.5]\n- p\n"}

\* positionals[0]; null when no positional argument is given
VersionArgs ==
    releaseTypes
        \cup {"2.0.0", "1.0.0", "1.0.1-rc.1", "1.0.1-0.1", "not-a-version", Null}

ArgSets ==
    [versionArg : VersionArgs, preid : {Null, "beta"}, strict : BOOLEAN,
     yes : BOOLEAN, noPush : BOOLEAN]

\* the answers of getDefaultBranch("origin") and getCurrentBranch(): a branch
\* name, or null when git fails
BranchAnswers ==
    {[defaultBranch |-> "main", currentBranch |-> "main"],
     [defaultBranch |-> "main", currentBranch |-> "dev"],
     [defaultBranch |-> Null, currentBranch |-> "main"],
     [defaultBranch |-> "main", currentBranch |-> Null]}

Init ==
    /\ pc = "start"
    /\ args \in ArgSets
    /\ \E p \in Projects :
          /\ manifestJson = p.manifest
          /\ packageJson = p.package
          /\ versionsJson = p.versions
    /\ changelogFile \in ReleaseChangelogs
    /\ initial = [manifest |-> manifestJson, package |-> packageJson,
                  versions |-> versionsJson, changelog |-> changelogFile]
    /\ meta = NoMeta
    /\ parsedChangelog = NoParse
    /\ nextVersion = Null
    /\ branches = NoBranches
    /\ confirmation = NotAsked
    /\ changelog = Null
    /\ reparsed = NoParse
    /\ exitCode = -1
    /\ stdout = <<>>
    /\ stderr = <<>>
    /\ cmds = <<>>
    /\ writes = <<>>
    /\ steps = <<>>
    /\ PluginNotLoaded

NoPushModeWarning == "Running in no-push mode. No changes will be pushed to the remote."

\* strict mode with the --strict flag not read
strictModeOff(a) == FALSE

\* const strictMode = args.strict ?? false
strictMode(a) == a.strict

\* lines 214-232: the version argument is required
Start ==
    /\ pc = "start"
    /\ IF args.versionArg \in {Null, ""}
       THEN exitError("Missing version argument.") /\ UNCHANGED stdout
       ELSE /\ stdout' = (IF args.noPush THEN Append(stdout, NoPushModeWarning) ELSE stdout)
            /\ pc' = "verify"
            /\ UNCHANGED <<exitCode, stderr>>
    /\ UNCHANGED <<plugin, args, files, initial, locals, reparsed, cmds, writes, steps>>

\* lines 234-238: getProjectInfo() and checkVersionCoherency(meta)
Verify ==
    /\ pc = "verify"
    /\ steps' = Append(steps, "verify")
    /\ IF getProjectInfoError(manifestJson, packageJson) # Null
       THEN exitError(getProjectInfoError(manifestJson, packageJson)) /\ UNCHANGED meta
       ELSE /\ meta' = getProjectInfo(manifestJson, packageJson, versionsJson)
            /\ IF checkVersionCoherency(meta')
               THEN pc' = "parse" /\ UNCHANGED <<exitCode, stderr>>
               ELSE exitError(coherencyError(meta'))
    /\ UNCHANGED <<plugin, args, files, initial, parsedChangelog, nextVersion, branches,
                   confirmation, changelog, reparsed, stdout, cmds, writes>>

\* lines 240-248: parseChangelog(), its warnings, strict mode
Parse ==
    /\ pc = "parse"
    /\ steps' = Append(steps, "parse")
    /\ parsedChangelog' = parseChangelog(changelogFile)
    /\ stdout' = stdout \o parsedChangelog'.warnings
    /\ IF strictMode(args) /\ parsedChangelog'.warnings # <<>>
       THEN exitError("Strict mode: aborting due to changelog warnings.")
       ELSE pc' = "ensure" /\ UNCHANGED <<exitCode, stderr>>
    /\ UNCHANGED <<plugin, args, files, initial, meta, nextVersion, branches, confirmation,
                   changelog, reparsed, cmds, writes>>

\* lines 250-273: an unreleased entry with content to release
EnsureContent ==
    /\ pc = "ensure"
    /\ steps' = Append(steps, "ensure")
    /\ IF strictMode(args) /\ EnsureWarnings(parsedChangelog) # <<>>
       THEN exitError(EnsureWarnings(parsedChangelog)[1])
               /\ UNCHANGED <<parsedChangelog, stdout>>
       ELSE /\ stdout' = stdout \o EnsureWarnings(parsedChangelog)
            /\ parsedChangelog' = WithPlaceholder(WithUnreleased(parsedChangelog))
            /\ pc' = "resolve"
            /\ UNCHANGED <<exitCode, stderr>>
    /\ UNCHANGED <<plugin, args, files, initial, meta, nextVersion, branches, confirmation,
                   changelog, reparsed, cmds, writes>>

\* the branches are asked for a keyword that is, or starts from, a pre-release
AsksBranches ==
    args.versionArg \in releaseTypes /\ isPreRelease(args.versionArg, meta.version)

\* lines 322-337: the changelog must hold no version above the next one
CheckHigherVersions(entries, next) ==
    IF higherVersionsThrows(entries, next)
    THEN exitError("Invalid Version: " \o next)
    ELSE IF higherVersions(entries, next) # <<>>
    THEN exitError(ConflictError(higherVersions(entries, next)))
    ELSE pc' = "confirm" /\ UNCHANGED <<exitCode, stderr>>

\* lines 275-337: the next version
ResolveVersion ==
    /\ pc = "resolve"
    /\ steps' = Append(steps, "resolve")
    /\ branches' \in BranchAnswers
    /\ IF AsksBranches /\ OnDefaultBranch(branches')
       THEN exitError("Pre-releases must be created from a non-default branch.")
               /\ UNCHANGED nextVersion
       ELSE IF resolveVersion(args.versionArg, meta.version, args.preid) \in {Null, ""}
       THEN exitError("Invalid version: " \o args.versionArg) /\ UNCHANGED nextVersion
       ELSE /\ nextVersion' =
                  bratNormalize(resolveVersion(args.versionArg, meta.version, args.preid))
            /\ CheckHigherVersions(parsedChangelog.entries, nextVersion')
    /\ UNCHANGED <<plugin, args, files, initial, meta, parsedChangelog, confirmation, changelog,
                   reparsed, stdout, cmds, writes>>

\* process.stdin.isTTY and the answer to the prompt; neither is read with --yes
Answers(yes) ==
    IF yes THEN {[reached |-> TRUE, isTTY |-> FALSE, response |-> FALSE]}
    ELSE [reached : {TRUE}, isTTY : BOOLEAN, response : BOOLEAN]

\* the confirmation with the answer of the prompt not looked at
confirmAnyAnswer(autoConfirm, isTTY, response) ==
    IF autoConfirm THEN "proceed"
    ELSE IF ~isTTY THEN "no-tty"
    ELSE "proceed"

\* lines 341-355: how the confirmation ends
confirm(autoConfirm, isTTY, response) ==
    IF autoConfirm THEN "proceed"
    ELSE IF ~isTTY THEN "no-tty"
    ELSE IF response THEN "proceed"
    ELSE "cancelled"

\* lines 340-355: the confirmation prompt
Confirm ==
    /\ pc = "confirm"
    /\ steps' = Append(steps, "confirm")
    /\ \E a \in Answers(args.yes) : confirmation' = a
    /\ CASE confirm(args.yes, confirmation'.isTTY, confirmation'.response) = "no-tty" ->
              exitError("Running in non-interactive mode without --yes flag. Use --yes to auto-confirm.")
         [] confirm(args.yes, confirmation'.isTTY, confirmation'.response) = "cancelled" ->
              exitCode' = 0 /\ pc' = "done" /\ UNCHANGED stderr
         [] OTHER -> pc' = "manifest" /\ UNCHANGED <<exitCode, stderr>>
    /\ UNCHANGED <<plugin, args, files, initial, meta, parsedChangelog, nextVersion, branches,
                   changelog, reparsed, stdout, cmds, writes>>

\* the message of the error a failing writeFile rejects with
WriteError(file) == "EACCES: permission denied, open '" \o file \o "'"

\* lines 358-365: manifest.json takes the next version
UpdateManifest ==
    /\ pc = "manifest"
    /\ steps' = Append(steps, "metadata")
    /\ \E written \in BOOLEAN :
          IF written
          THEN /\ manifestJson' = [manifestJson EXCEPT !.version = nextVersion]
               /\ writes' = Append(writes, "manifest.json")
               /\ pc' = "package"
               /\ UNCHANGED <<exitCode, stderr>>
          ELSE exitError(WriteError("manifest.json")) /\ UNCHANGED <<manifestJson, writes>>
    /\ UNCHANGED <<plugin, args, packageJson, versionsJson, changelogFile, initial, locals,
                   reparsed, stdout, cmds>>

\* lines 367-374: package.json takes the next version
UpdatePackage ==
    /\ pc = "package"
    /\ \E written \in BOOLEAN :
          IF written
          THEN /\ packageJson' = [packageJson EXCEPT !.version = nextVersion]
               /\ writes' = Append(writes, "package.json")
               /\ pc' = "versions"
               /\ UNCHANGED <<exitCode, stderr>>
          ELSE exitError(WriteError("package.json")) /\ UNCHANGED <<packageJson, writes>>
    /\ UNCHANGED <<plugin, args, manifestJson, versionsJson, changelogFile, initial, locals,
                   reparsed, stdout, cmds, steps>>

\* versions.json written back without the new key
WithoutVersion(versions, key, value) == versions

\* versionsJson[nextVersion] = meta.minAppVersion
WithVersion(versions, key, value) ==
    {e \in versions : e.key # key} \cup {[key |-> key, value |-> value]}

\* lines 376-387: versions.json gets the next version unless it holds it
UpdateVersions ==
    /\ pc = "versions"
    /\ IF HasVersion(versionsJson, nextVersion)
       THEN /\ stdout' = Append(stdout, "Version " \o nextVersion
                                           \o " already exists in versions.json")
            /\ pc' = "changelog"
            /\ UNCHANGED <<versionsJson, writes, exitCode, stderr>>
       ELSE \E written \in BOOLEAN :
               IF written
               THEN /\ versionsJson' =
                          WithVersion(versionsJson, nextVersion, meta.minAppVersion)
                    /\ writes' = Append(writes, "versions.json")
                    /\ pc' = "changelog"
                    /\ UNCHANGED <<exitCode, stderr, stdout>>
               ELSE exitError(WriteError("versions.json"))
                       /\ UNCHANGED <<versionsJson, writes, stdout>>
    /\ UNCHANGED <<plugin, args, manifestJson, packageJson, changelogFile, initial, locals,
                   reparsed, cmds, steps>>

\* lines 389-392: updateChangelog(parsedChangelog, nextVersion)
RewriteChangelog ==
    /\ pc = "changelog"
    /\ steps' = Append(steps, "changelog")
    /\ IF updateChangelogThrows(parsedChangelog)
       THEN exitError("No unreleased changes found in CHANGELOG.md.")
               /\ UNCHANGED <<changelogFile, changelog, writes>>
       ELSE \E written \in BOOLEAN :
               IF written
               THEN /\ changelogFile' =
                          updateChangelogText(parsedChangelog, nextVersion, Today)
                    /\ changelog' = updateChangelog(parsedChangelog, nextVersion, Today)
                    /\ writes' = Append(writes, "CHANGELOG.md")
                    /\ pc' = "checks"
                    /\ UNCHANGED <<exitCode, stderr>>
               ELSE exitError(WriteError("CHANGELOG.md"))
                       /\ UNCHANGED <<changelogFile, changelog, writes>>
    /\ UNCHANGED <<plugin, args, manifestJson, packageJson, versionsJson, initial, meta,
                   parsedChangelog, nextVersion, branches, confirmation, reparsed,
                   stdout, cmds>>

\* a failed command that is logged without ending the run
runFailedGoesOn(cmd, msg) ==
    /\ stderr' = stderr \o <<"Command failed: " \o cmd, msg>>
    /\ UNCHANGED <<exitCode, pc>>

\* run(cmd) returned false: it logged the failure, then exitError(msg)
runFailed(cmd, msg) ==
    /\ stderr' = stderr \o <<"Command failed: " \o cmd, msg>>
    /\ exitCode' = 1
    /\ pc' = "done"

\* lines 394-400: npm run check
RunChecks ==
    /\ pc = "checks"
    /\ steps' = Append(steps, "checks")
    /\ cmds' = Append(cmds, "npm run check")
    /\ \E passed \in BOOLEAN :
          IF passed THEN pc' = "commit" /\ UNCHANGED <<exitCode, stderr>>
          ELSE runFailed("npm run check", "Checks failed. Please fix issues before releasing.")
    /\ UNCHANGED <<plugin, args, files, initial, locals, reparsed, stdout, writes>>

\* `chore: release ${nextVersionTag}\n\n${changelog}`
commitMessage(version, notes) == "chore: release " \o version \o "\n\n" \o notes

\* `git commit -am "${commitMessage.replace(/"/g, '\"')}"`: the replacement
\* string '\"' of the source is the one character "
commitCommand(version, notes) ==
    "git commit -am \"" \o replaceAll(commitMessage(version, notes), "\"", "\"") \o "\""

\* the tag command with the tag named v<version>
tagCommandWithPrefix(version, notes) ==
    "git tag -a v" \o version \o " -m \"" \o replaceAll(notes, "\"", "\"") \o "\""

\* `git tag -a ${nextVersionTag} -m "${changelog.replace(/"/g, '\"')}"`
tagCommand(version, notes) ==
    "git tag -a " \o version \o " -m \"" \o replaceAll(notes, "\"", "\"") \o "\""

\* lines 406-411: the release commit
Commit ==
    /\ pc = "commit"
    /\ steps' = Append(steps, "commit")
    /\ cmds' = Append(cmds, commitCommand(nextVersion, changelog))
    /\ \E committed \in BOOLEAN :
          IF committed THEN pc' = "tag" /\ UNCHANGED <<exitCode, stderr>>
          ELSE runFailed(commitCommand(nextVersion, changelog),
                         "Git commit failed. Please check git status.")
    /\ UNCHANGED <<plugin, args, files, initial, locals, reparsed, stdout, writes>>

\* lines 413-416: the annotated tag
Tag ==
    /\ pc = "tag"
    /\ steps' = Append(steps, "tag")
    /\ cmds' = Append(cmds, tagCommand(nextVersion, changelog))
    /\ \E tagged \in BOOLEAN :
          IF tagged THEN pc' = "push" /\ UNCHANGED <<exitCode, stderr>>
          ELSE runFailed(tagCommand(nextVersion, changelog), "Git tag creation failed.")
    /\ UNCHANGED <<plugin, args, files, initial, locals, reparsed, stdout, writes>>

\* lines 419-430: --no-push stops the run before the push
StopBeforePush ==
    /\ pc = "push"
    /\ args.noPush
    /\ stdout' = Append(stdout, "no-push mode - stopping before push")
    /\ exitCode' = 0
    /\ pc' = "done"
    /\ UNCHANGED <<plugin, args, files, initial, locals, reparsed, stderr, cmds, writes, steps>>

\* the push with the tags pushed before the branch
PushTagsFirst ==
    /\ pc = "push"
    /\ ~args.noPush
    /\ steps' = Append(steps, "push")
    /\ \E tagsPushed \in BOOLEAN, pushed \in BOOLEAN :
          IF ~tagsPushed
          THEN /\ cmds' = Append(cmds, "git push --tags")
               /\ runFailed("git push --tags", "Git push tags failed.")
          ELSE /\ cmds' = cmds \o <<"git push --tags", "git push">>
               /\ IF pushed
                  THEN exitCode' = 0 /\ pc' = "done" /\ UNCHANGED stderr
                  ELSE runFailed("git push", "Git push failed.")
    /\ UNCHANGED <<plugin, args, files, initial, locals, reparsed, stdout, writes>>

\* lines 432-445: git push, then git push --tags
Push ==
    /\ pc = "push"
    /\ ~args.noPush
    /\ steps' = Append(steps, "push")
    /\ \E pushed \in BOOLEAN, tagsPushed \in BOOLEAN :
          IF ~pushed
          THEN cmds' = Append(cmds, "git push") /\ runFailed("git push", "Git push failed.")
          ELSE /\ cmds' = cmds \o <<"git push", "git push --tags">>
               /\ IF tagsPushed
                  THEN exitCode' = 0 /\ pc' = "done" /\ UNCHANGED stderr
                  ELSE runFailed("git push --tags", "Git push tags failed.")
    /\ UNCHANGED <<plugin, args, files, initial, locals, reparsed, stdout, writes>>

Next ==
    \/ Start
    \/ Verify
    \/ Parse
    \/ EnsureContent
    \/ ResolveVersion
    \/ Confirm
    \/ UpdateManifest
    \/ UpdatePackage
    \/ UpdateVersions
    \/ RewriteChangelog
    \/ RunChecks
    \/ Commit
    \/ Tag
    \/ StopBeforePush
    \/ Push

Spec == Init /\ [][Next]_vars

(***************************************************************************)
(* The paste cleaner plugin: removal rules (src/src/rule.ts).              *)
(***************************************************************************)

\* the characters the literal branch of RemovalRule escapes: [.*+?^${}()|[\]\\]
SpecialChars == {".", "*", "+", "?", "^", "$", "{", "}", "(", ")", "|", "[", "]", "\\"}

\* pattern.replace(/[.*+?^${}()|[\]\\]/g, "\\$&")
RECURSIVE escapeFrom(_, _)
escapeFrom(pattern, i) ==
    IF i > Len(pattern) THEN ""
    ELSE (IF Char(pattern, i) \in SpecialChars THEN "\\" ELSE "") \o Char(pattern, i)
            \o escapeFrom(pattern, i + 1)

escaped(pattern) == escapeFrom(pattern, 1)

\* one element of a compiled pattern: a character, any character but a line
\* break (.), or a digit (\d), with its quantifier ("1", "+", "*" or "?")
Atom(kind, ch) == [kind |-> kind, ch |-> ch, quant |-> "1"]

Quantified(atoms, q) ==
    IF atoms = <<>> \/ atoms[Len(atoms)].quant # "1"
    THEN Null
    ELSE [atoms EXCEPT ![Len(atoms)].quant = q]

\* new RegExp(source, "g") for sources made of plain characters, ".", "\d",
\* escaped characters and the quantifiers + * ? after one of these: the
\* compiled pattern, or Null where the constructor throws a SyntaxError
RECURSIVE RegExpFrom(_, _, _)
RegExpFrom(source, i, atoms) ==
    IF atoms = Null THEN Null
    ELSE IF i > Len(source) THEN atoms
    ELSE IF Char(source, i) = "\\"
    THEN IF i = Len(source) THEN Null
         ELSE RegExpFrom(source, i + 2,
                         Append(atoms, IF Char(source, i + 1) = "d"
                                       THEN Atom("digit", "")
                                       ELSE Atom("char", Char(source, i + 1))))
    ELSE IF Char(source, i) \in {"+", "*", "?"}
    THEN RegExpFrom(source, i + 1, Quantified(atoms, Char(source, i)))
    ELSE IF Char(source, i) = "."
    THEN RegExpFrom(source, i + 1, Append(atoms, Atom("any", "")))
    ELSE RegExpFrom(source, i + 1, Append(atoms, Atom("char", Char(source, i))))

RegExp(source) == RegExpFrom(source, 1, <<>>)

\* new RemovalRule(pattern, isRegex), for a non-empty pattern
RemovalRule(pattern, isRegex) ==
    [original |-> pattern, isRegex |-> isRegex,
     pattern |-> RegExp(IF isRegex THEN pattern ELSE escaped(pattern))]

AtomMatches(atom, c) ==
    CASE atom.kind = "char"  -> c = atom.ch
      [] atom.kind = "digit" -> IsDigit(c)
      [] atom.kind = "any"   -> c \notin {"\n", "\r"}

\* how many characters from p on the atom can take
RunOf(atom, text, p) ==
    RunEnd(text, {i \in p..Len(text) : ~AtomMatches(atom, Char(text, i))}) - p + 1

MaxCount(atom, text, p) ==
    IF atom.quant = "?" THEN (IF RunOf(atom, text, p) > 0 THEN 1 ELSE 0)
    ELSE RunOf(atom, text, p)

MinCount(atom) == IF atom.quant = "+" THEN 1 ELSE 0

\* the match of atoms k.. at position p, with backtracking from the longest
\* repetition down: the position after the match, 0 when there is none
RECURSIVE MatchAtoms(_, _, _, _)
RECURSIVE TryCount(_, _, _, _, _)
RECURSIVE OrFewer(_, _, _, _, _, _)
MatchAtoms(atoms, k, text, p) ==
    IF k > Len(atoms) THEN p
    ELSE IF atoms[k].quant = "1"
    THEN IF p <= Len(text) /\ AtomMatches(atoms[k], Char(text, p))
         THEN MatchAtoms(atoms, k + 1, text, p + 1)
         ELSE 0
    ELSE TryCount(atoms, k, text, p, MaxCount(atoms[k], text, p))

TryCount(atoms, k, text, p, n) ==
    IF n < MinCount(atoms[k]) THEN 0
    ELSE OrFewer(MatchAtoms(atoms, k + 1, text, p + n), atoms, k, text, p, n)

OrFewer(found, atoms, k, text, p, n) ==
    IF found # 0 THEN found ELSE TryCount(atoms, k, text, p, n - 1)

\* result.replace(rule.pattern, "") with a global pattern: every match, from
\* left to right, is left out; after an empty match the search goes on one
\* character further
RECURSIVE replaceFrom(_, _, _)
RECURSIVE replaceAt(_, _, _, _)
replaceFrom(text, atoms, p) ==
    IF p > Len(text) THEN ""
    ELSE replaceAt(MatchAtoms(atoms, 1, text, p), text, atoms, p)

replaceAt(next, text, atoms, p) ==
    IF next = 0 \/ next = p
    THEN Char(text, p) \o replaceFrom(text, atoms, p + 1)
    ELSE replaceFrom(text, atoms, next)

\* the loop of applyRules from rule i on
RECURSIVE applyFrom(_, _, _)
applyFrom(result, rs, i) ==
    IF i > Len(rs) THEN result
    ELSE applyFrom(replaceFrom(result, rs[i].pattern, 1), rs, i + 1)

\* the loop taken from the last rule to the first
RECURSIVE applyBackFrom(_, _, _)
applyBackFrom(result, rs, i) ==
    IF i < 1 THEN result
    ELSE applyBackFrom(replaceFrom(result, rs[i].pattern, 1), rs, i - 1)

applyRulesBottomUp(source, rs) ==
    IF source = Null THEN "" ELSE applyBackFrom(source, rs, Len(rs))

\* applyRules(source, rules); Null stands for undefined and null
applyRules(source, rs) ==
    IF source = Null THEN "" ELSE applyFrom(source, rs, 1)

\* the loop of compileRules from index i on (0-based i of the source is i - 1)
RECURSIVE compileFrom(_, _, _)
RECURSIVE pushCompiled(_, _, _, _)
compileFrom(s, i, compiled) ==
    IF i > SetMin({Len(s.removalRules), Len(s.isRegex)}) THEN compiled
    ELSE IF s.removalRules[i] \in {"", Null} THEN compileFrom(s, i + 1, compiled)
    ELSE pushCompiled(RemovalRule(s.removalRules[i], s.isRegex[i] = TRUE), s, i, compiled)

\* this.rules.push(compiledRule), or nothing when the constructor threw
pushCompiled(rule, s, i, compiled) ==
    compileFrom(s, i + 1, IF rule.pattern = Null THEN compiled ELSE Append(compiled, rule))

\* PasteCleaner.compileRules(): the new value of this.rules
compileRules(s) == compileFrom(s, 1, <<>>)

\* the release tool takes no part in what the plugin does
ReleaseNotRun ==
    /\ args = NoArgs
    /\ manifestJson = NoManifest
    /\ packageJson = [version |-> ""]
    /\ versionsJson = {}
    /\ changelogFile = ""
    /\ meta = NoMeta
    /\ parsedChangelog = NoParse
    /\ nextVersion = Null
    /\ branches = NoBranches
    /\ confirmation = NotAsked
    /\ changelog = Null
    /\ reparsed = NoParse
    /\ exitCode = -1
    /\ stdout = <<>>
    /\ stderr = <<>>
    /\ cmds = <<>>
    /\ writes = <<>>
    /\ steps = <<>>

\* ------------------------------------------------------------------------
\* The test fields of the settings tab: applyRules on what was typed
\* ------------------------------------------------------------------------

MaxSource == 3

MaxRules == 2

SourceChars == {"a", "b", "+", "."}

RECURSIVE SourcesOfLength(_)
SourcesOfLength(n) ==
    IF n = 0 THEN {""}
    ELSE {t \o c : t \in SourcesOfLength(n - 1), c \in SourceChars}

\* trySource?.getValue(): a text, or undefined while the field does not exist
Sources == UNION {SourcesOfLength(n) : n \in 0..MaxSource} \cup {Null}

\* rows of the settings: a pattern and its Regex toggle; "" is the row just
\* added, the regex "+" does not compile
RuleRows ==
    {<<"a", FALSE>>, <<"ab", FALSE>>, <<"a+", FALSE>>, <<".", FALSE>>,
     <<"a+", TRUE>>, <<".", TRUE>>, <<"\\.", TRUE>>, <<"b?a", TRUE>>,
     <<"+", TRUE>>, <<"", FALSE>>}

SettingsOf(rows) ==
    [removalRules |-> [i \in 1..Len(rows) |-> rows[i][1]],
     isRegex |-> [i \in 1..Len(rows) |-> rows[i][2]]]

RuleSettings == {SettingsOf(rows) : rows \in UNION {[1..n -> RuleRows] : n \in 0..MaxRules}}

\* after onload(): settings loaded, rules compiled, the tab not yet filled
TryInit ==
    /\ pc = "typed"
    /\ settings \in RuleSettings
    /\ rules = compileRules(settings)
    /\ \E source \in Sources : tab = [NoTab EXCEPT !.trySource = source, !.tryDest = Null]
    /\ event = NoEvent
    /\ editor = NoEditor
    /\ initial = [settings |-> settings]
    /\ ReleaseNotRun

\* handleChanges(): tryDest.setValue(applyRules(trySource?.getValue(), plugin.rules))
handleChanges ==
    /\ pc = "typed"
    /\ tab' = [tab EXCEPT !.tryDest = applyRules(tab.trySource, rules)]
    /\ pc' = "shown"
    /\ UNCHANGED <<release, settings, rules, event, editor>>

SpecRules == TryInit /\ [][handleChanges]_vars

\* ------------------------------------------------------------------------
\* The paste handler (onPaste)
\* ------------------------------------------------------------------------

\* event.clipboardData?.types: Null when the event has no clipboardData
ClipboardTypes ==
    {Null, <<>>, <<"text/html">>, <<"text/plain">>, <<"text/html", "text/plain">>}

\* event.clipboardData?.getData("text/plain")
PlainTexts == {"", "a", "b", "ab", "a+b"}

ClipboardEvents ==
    [defaultPrevented : BOOLEAN, types : ClipboardTypes, plainText : PlainTexts]

PasteSettings ==
    {SettingsOf(<<>>), SettingsOf(<<<<"a", FALSE>>>>), SettingsOf(<<<<"a+", TRUE>>>>),
     SettingsOf(<<<<"a+", FALSE>>, <<"b", FALSE>>>>), SettingsOf(<<<<".", TRUE>>>>)}

PasteInit ==
    /\ pc = "paste"
    /\ settings \in PasteSettings
    /\ rules = compileRules(settings)
    /\ event \in ClipboardEvents
    /\ editor \in [active : BOOLEAN, inserted : {<<>>}]
    /\ tab = NoTab
    /\ initial = [event |-> event]
    /\ ReleaseNotRun

\* Array.from(types).includes("text/plain")
HasPlainText(types) == \E i \in 1..Len(types) : types[i] = "text/plain"

\* this.app.workspace.activeEditor?.editor?.replaceSelection(result)
replaceSelection(ed, result) ==
    IF ed.active THEN [ed EXCEPT !.inserted = Append(@, result)] ELSE ed

\* lines 177-180 of onPaste
pasteCleaned(result, plainText) ==
    IF result # plainText
    THEN /\ editor' = replaceSelection(editor, result)
         /\ event' = [event EXCEPT !.defaultPrevented = TRUE]
    ELSE UNCHANGED <<event, editor>>

onPaste ==
    /\ pc = "paste"
    /\ pc' = "handled"
    /\ IF event.defaultPrevented THEN UNCHANGED <<event, editor>>
       ELSE IF event.types = Null THEN UNCHANGED <<event, editor>>
       ELSE IF ~HasPlainText(event.types) THEN UNCHANGED <<event, editor>>
       ELSE IF event.plainText \in {Null, ""} THEN UNCHANGED <<event, editor>>
       ELSE pasteCleaned(applyRules(event.plainText, rules), event.plainText)
    /\ UNCHANGED <<release, settings, rules, tab>>

SpecPaste == PasteInit /\ [][onPaste]_vars

\* ------------------------------------------------------------------------
\* The rule rows of the settings tab (createRuleSetting) and their handlers,
\* each of which is suspended in `await this.plugin.saveSettings()`
\* ------------------------------------------------------------------------

\* handlers started in one session of the tab
MaxHandlers == 3

\* handlers suspended in saveSettings() at the same time
MaxSaving == 2

\* array.splice(index, 1); indexes are 1-based here
splice(array, index) ==
    IF index <= Len(array)
    THEN SubSeq(array, 1, index - 1) \o SubSeq(array, index + 1, Len(array))
    ELSE array

\* array[index] = value: an index past the end leaves holes before it. A
\* hole reads as undefined: Null in removalRules; in isRegex FALSE, which is
\* what every reader of isRegex makes of undefined (Boolean(x), x || false)
assign(array, index, value, undefined) ==
    IF index <= Len(array) THEN [array EXCEPT ![index] = value]
    ELSE array \o [k \in 1..(index - Len(array) - 1) |-> undefined] \o <<value>>

\* array[index], undefined past the end
at(array, index, undefined) == IF index <= Len(array) THEN array[index] ELSE undefined

\* one row as createRuleSetting(index) draws it: the index its three
\* handlers captured, and the values its toggle and its input show
createRuleSetting(s, index) ==
    [index |-> index,
     pattern |-> IF at(s.removalRules, index, Null) = Null THEN ""
                 ELSE s.removalRules[index],
     isRegex |-> at(s.isRegex, index, FALSE)]

\* the rows display() creates: for (let i = 0; i < removalRules.length; i++)
display(s) == [i \in 1..Len(s.removalRules) |-> createRuleSetting(s, i)]

\* the tab as first displayed, with "aab" typed into the test input
TabSettings ==
    {SettingsOf(<<<<"a", FALSE>>, <<"b", TRUE>>, <<"ab", FALSE>>>>),
     SettingsOf(<<<<"a+", TRUE>>, <<"b", FALSE>>>>),
     SettingsOf(<<<<"a", FALSE>>>>)}

TabInit ==
    /\ pc = "tab"
    /\ settings \in TabSettings
    /\ rules = compileRules(settings)
    /\ tab = [NoTab EXCEPT !.rows = display(settings), !.trySource = "aab",
                           !.tryDest = applyRules("aab", rules)]
    /\ event = NoEvent
    /\ editor = NoEditor
    /\ initial = [settings |-> settings]
    /\ ReleaseNotRun

\* a handler of row r has changed the settings and compiled the rules; it
\* now waits in saveSettings(). `shows` is the row with what it shows now
Suspend(kind, r, shows, s) ==
    /\ settings' = s
    /\ rules' = compileRules(s)
    /\ tab' = [tab EXCEPT !.rows[r] = shows,
                          !.saving = Append(@, kind),
                          !.handled = @ + 1,
                          !.last = [kind |-> kind, index |-> tab.rows[r].index,
                                    shown |-> tab.rows[r].pattern,
                                    target |-> at(settings.removalRules,
                                                  tab.rows[r].index, Null)]]

CanHandle == pc = "tab" /\ tab.handled < MaxHandlers /\ Len(tab.saving) < MaxSaving

\* the click handler of the delete button of a row (lines 122-124)
DeleteRule ==
    /\ CanHandle
    /\ \E r \in 1..Len(tab.rows) :
          Suspend("delete", r, tab.rows[r],
                  [removalRules |-> splice(settings.removalRules, tab.rows[r].index),
                   isRegex |-> splice(settings.isRegex, tab.rows[r].index)])
    /\ UNCHANGED <<pc, release, event, editor>>

\* the change handler of the Regex toggle of a row (lines 84-85)
ToggleRegex ==
    /\ CanHandle
    /\ \E r \in 1..Len(tab.rows) :
          Suspend("toggle", r, [tab.rows[r] EXCEPT !.isRegex = ~@],
                  [settings EXCEPT !.isRegex =
                      assign(@, tab.rows[r].index, ~tab.rows[r].isRegex, FALSE)])
    /\ UNCHANGED <<pc, release, event, editor>>

\* what is typed into the pattern input of a row
TypedPatterns == {"", "b+"}

\* the change handler of the pattern input of a row (lines 103-104)
EditPattern ==
    /\ CanHandle
    /\ \E r \in 1..Len(tab.rows) : \E value \in TypedPatterns \ {tab.rows[r].pattern} :
          Suspend("edit", r, [tab.rows[r] EXCEPT !.pattern = value],
                  [settings EXCEPT !.removalRules =
                      assign(@, tab.rows[r].index, value, Null)])
    /\ UNCHANGED <<pc, release, event, editor>>

\* rules.length > 0 && rules[rules.length - 1].trim().length === 0
HasEmptyTail(removalRules) ==
    /\ removalRules # <<>>
    /\ removalRules[Len(removalRules)] # Null
    /\ trim(removalRules[Len(removalRules)]) = ""

\* the click handler of "Add new rule" (lines 148-157): it compiles nothing
AddRule ==
    /\ CanHandle
    /\ ~HasEmptyTail(settings.removalRules)
    /\ settings' = [removalRules |-> Append(settings.removalRules, ""),
                    isRegex |-> Append(settings.isRegex, FALSE)]
    /\ tab' = [tab EXCEPT !.saving = Append(@, "add"), !.handled = @ + 1,
                          !.last = [NoHandler EXCEPT !.kind = "add"]]
    /\ UNCHANGED <<pc, release, rules, event, editor>>

\* saveSettings() of the oldest suspended handler returns: handleChanges()
\* for a row handler, and display(), which draws the rows anew and shows
\* the test result, for a delete or an add
SaveReturns ==
    /\ pc = "tab"
    /\ tab.saving # <<>>
    /\ tab' = [tab EXCEPT !.saving = Tail(@),
                          !.tryDest = applyRules(tab.trySource, rules),
                          !.rows = IF Head(tab.saving) \in {"delete", "add"}
                                   THEN display(settings) ELSE @]
    /\ UNCHANGED <<pc, release, settings, rules, event, editor>>

TabNext ==
    \/ DeleteRule
    \/ ToggleRegex
    \/ EditPattern
    \/ AddRule
    \/ SaveReturns

SpecTab == TabInit /\ [][TabNext]_vars

(***************************************************************************)
(* Properties of the changelog round trip.                                 *)
(***************************************************************************)

\* an entry as updateChangelog renders it, from the line break before its
\* header to the blank line after its content
EntryBlock(e) == "\n" \o e.header \o "\n\n" \o e.content \o "\n\n"

\* the written text with the blank lines its final trim() removed
Padded(text) == text \o "\n\n\n"

RemoveAt(seq, k) == SubSeq(seq, 1, k - 1) \o SubSeq(seq, k + 1, Len(seq))

RECURSIVE BlocksInOrder(_, _, _)
BlocksFrom(text, entries, k) ==
    /\ k # 0
    /\ BlocksInOrder(text, Tail(entries), k + Len(EntryBlock(entries[1])) - 1)

\* the entries appear in the text as blocks, one after the other, from `from`
BlocksInOrder(text, entries, from) ==
    \/ entries = <<>>
    \/ BlocksFrom(text, entries, indexOf(text, EntryBlock(entries[1]), from))

\* C1: the text updateChangelog writes contains the new dated entry and,
\* after it, every entry of the parsed changelog other than the consumed
\* unreleased entry, header and content unchanged, in their original order.
C1_WriterPreservation ==
    pc = "reparse" =>
        BlocksInOrder(Padded(changelogFile),
                      <<NewEntry(parsedChangelog, nextVersion, Today)>>
                          \o RemoveAt(parsedChangelog.entries,
                                      FindUnreleased(parsedChangelog.entries)),
                      1)

VersionsAndContents(entries) ==
    [i \in 1..Len(entries) |-> <<entries[i].version, entries[i].content>>]

NotUnreleased(entries) ==
    SelectSeq(entries, LAMBDA e : e.version # "unreleased")

\* C2: parsing the text updateChangelog wrote yields non-unreleased entries
\* equal in count, version, content and order to the new dated entry (the
\* next version, the consumed unreleased content) followed by the
\* non-unreleased entries of the first parse.
C2_ReparseRoundTrip ==
    pc = "reparsed" =>
        VersionsAndContents(NotUnreleased(reparsed.entries))
            = <<<<nextVersion, changelog>>>>
                  \o VersionsAndContents(NotUnreleased(parsedChangelog.entries))

UnreleasedCount(entries) ==
    Cardinality({i \in 1..Len(entries) : entries[i].version = "unreleased"})

\* C3: the entry list parseChangelog returns holds exactly one entry whose
\* version is "unreleased".
C3_ExactlyOneUnreleased ==
    pc = "update" => UnreleasedCount(parsedChangelog.entries) = 1


(***************************************************************************)
(* Properties of a release run.                                            *)
(***************************************************************************)

FilesUnchanged ==
    /\ manifestJson = initial.manifest
    /\ packageJson = initial.package
    /\ versionsJson = initial.versions
    /\ changelogFile = initial.changelog

NothingDone == writes = <<>> /\ cmds = <<>> /\ FilesUnchanged

Logged(stream, msg) == \E i \in 1..Len(stream) : stream[i] = msg

Entered(step) == \E i \in 1..Len(steps) : steps[i] = step

\* --yes was given, or the prompt was shown on a terminal and answered yes
ConfirmationPassed ==
    /\ confirmation.reached
    /\ args.yes \/ (confirmation.isTTY /\ confirmation.response)

Declined ==
    /\ confirmation.reached
    /\ ~args.yes /\ confirmation.isTTY /\ ~confirmation.response

NonInteractive == confirmation.reached /\ ~args.yes /\ ~confirmation.isTTY

\* C4: until the confirmation has passed no file is written and no command
\* is run; a negative answer ends the run with exit code 0, a run without
\* terminal and without --yes ends with exit code 1, both with every file
\* unchanged.
C4_ConfirmationGate ==
    /\ ~ConfirmationPassed => NothingDone
    /\ Declined => exitCode = 0 /\ pc = "done" /\ NothingDone
    /\ NonInteractive => exitCode = 1 /\ pc = "done" /\ NothingDone

C4_Witness == Declined /\ exitCode = 0 /\ Entered("confirm")

\* C5: with --strict, a changelog that makes the parser warn ends the run
\* with exit code 1 in the parse step: the version is not resolved, no file
\* is written and no command is run.
C5_StrictModeAborts ==
    (args.strict /\ parsedChangelog.warnings # <<>>) =>
        /\ exitCode = 1
        /\ pc = "done"
        /\ steps = <<"verify", "parse">>
        /\ nextVersion = Null
        /\ NothingDone

C5_Witness ==
    /\ args.strict
    /\ Logged(parsedChangelog.warnings, MissingUnreleasedWarning)
    /\ exitCode = 1

ConflictAbort ==
    \E i \in 1..Len(stderr) :
        startsWith(stderr[i], "Changelog contains versions higher than the target version: ")

\* some entry with a semantic version is above the next version
SomeEntryAbove(entries, next) ==
    \E i \in 1..Len(entries) :
        /\ entries[i].version \notin {Null, "unreleased"}
        /\ SemVer(entries[i].version).ok
        /\ SemVer(next).ok
        /\ compare(SemVer(entries[i].version), SemVer(next)) = 1

\* C6: once the next version is resolved, the run aborts with the
\* changelog-version-conflict error exactly when some entry whose version is
\* a semantic version is strictly greater than the next version (an equal
\* entry or an entry without version does not count), and it aborts with
\* exit code 1 and nothing changed.
C6_MonotonicityCheck ==
    /\ (Entered("resolve") /\ nextVersion # Null) =>
          (ConflictAbort <=> SomeEntryAbove(parsedChangelog.entries, nextVersion))
    /\ ConflictAbort => exitCode = 1 /\ pc = "done" /\ NothingDone

C6_Witness == ConflictAbort /\ nextVersion = "1.0.1"

\* C7: the next version a bump keyword resolves to, after normalization, is
\* strictly greater than the current version.
C7_KeywordBumpIsGreater ==
    (args.versionArg \in releaseTypes /\ nextVersion # Null) =>
        /\ SemVer(nextVersion).ok
        /\ compare(SemVer(nextVersion), SemVer(meta.version)) = 1

BranchPolicyAbort == Logged(stderr, "Pre-releases must be created from a non-default branch.")

PreKeyword == args.versionArg \in {"premajor", "preminor", "prepatch", "prerelease"}

CurrentIsPreRelease == SemVer(meta.version).ok /\ SemVer(meta.version).prerelease # <<>>

\* C8: a run with a bump keyword that reaches version resolution aborts with
\* the branch-policy error exactly when the bump is a pre-release bump (by
\* keyword, or because the current version is a pre-release) and both branch
\* names are known and equal; it then ends with exit code 1 and nothing
\* changed.
C8_BranchPolicy ==
    /\ (args.versionArg \in releaseTypes /\ Entered("resolve")) =>
          (BranchPolicyAbort <=>
              /\ PreKeyword \/ CurrentIsPreRelease
              /\ branches.defaultBranch # Null
              /\ branches.currentBranch # Null
              /\ branches.defaultBranch = branches.currentBranch)
    /\ BranchPolicyAbort =>
          /\ args.versionArg \in releaseTypes
          /\ exitCode = 1 /\ pc = "done" /\ nextVersion = Null /\ NothingDone

C8_Witness == BranchPolicyAbort /\ args.versionArg = "patch"

StepOrder ==
    <<"verify", "parse", "ensure", "resolve", "confirm", "metadata", "changelog",
      "checks", "commit", "tag", "push">>

\* C9: the steps entered are an initial part of the fixed order, each once;
\* an error ends the run with exit code 1; nothing happens after an error or
\* after the process has exited.
C9_SinglePass ==
    /\ [](/\ Len(steps) <= Len(StepOrder)
          /\ steps = SubSeq(StepOrder, 1, Len(steps))
          /\ stderr # <<>> => exitCode = 1
          /\ exitCode # -1 => pc = "done")
    /\ [][exitCode = -1 /\ stderr = <<>>]_vars

C9_Witness ==
    /\ exitCode = 1
    /\ steps = SubSeq(StepOrder, 1, 9)
    /\ Logged(stderr, "Git commit failed. Please check git status.")

ChecksFailed == Logged(stderr, "Checks failed. Please fix issues before releasing.")

\* C10: when npm run check fails the run ends with exit code 1; the four
\* files carry the next version and no commit, tag or push command was run.
C10_ChecksFailure ==
    ChecksFailed =>
        /\ exitCode = 1
        /\ pc = "done"
        /\ manifestJson.version = nextVersion
        /\ packageJson.version = nextVersion
        /\ \E e \in versionsJson : e.key = nextVersion /\ e.value # ""
        /\ includes(changelogFile, "\n## [" \o nextVersion \o "] - " \o Today \o "\n")
        /\ changelogFile # initial.changelog
        /\ cmds = <<"npm run check">>

C10_Witness ==
    /\ ChecksFailed
    /\ Logged(writes, "versions.json")
    /\ manifestJson.version # initial.manifest.version

IsCommitCmd(c) == startsWith(c, "git commit ")

IsTagCmd(c) == startsWith(c, "git tag ")

IsPushCmd(c) == startsWith(c, "git push")

Ran(IsCmd(_)) == \E i \in 1..Len(cmds) : IsCmd(cmds[i])

CommitFailed == Logged(stderr, "Git commit failed. Please check git status.")

TagFailed == Logged(stderr, "Git tag creation failed.")

\* C11: a tag command is run only right after a commit command that
\* succeeded; the tag is named by the next version alone; the commit message
\* starts with "chore: release <nextVersion>"; a failed commit ends the run
\* with exit code 1 and no tag command, a failed tag with exit code 1 and no
\* push command.
C11_CommitThenTag ==
    /\ \A i \in 1..Len(cmds) :
          IsTagCmd(cmds[i]) =>
              /\ i > 1 /\ IsCommitCmd(cmds[i - 1])
              /\ ~CommitFailed
              /\ startsWith(cmds[i], "git tag -a " \o nextVersion \o " -m ")
    /\ \A i \in 1..Len(cmds) :
          IsCommitCmd(cmds[i]) =>
              startsWith(cmds[i], "git commit -am \"chore: release " \o nextVersion \o "\n")
    /\ CommitFailed => exitCode = 1 /\ pc = "done" /\ ~Ran(IsTagCmd) /\ ~Ran(IsPushCmd)
    /\ TagFailed => exitCode = 1 /\ pc = "done" /\ ~Ran(IsPushCmd)

C11_Witness == TagFailed /\ Ran(IsCommitCmd) /\ nextVersion = "1.0.1-beta0"

PushFailed == Logged(stderr, "Git push failed.")

PushTagsFailed == Logged(stderr, "Git push tags failed.")

\* C12: with --no-push no push command is ever run and the run that created
\* commit and tag ends with exit code 0; without it the push commands are
\* run only after the tag was created, git push first and git push --tags
\* only after git push succeeded; a failure of either ends the run with exit
\* code 1, and a run that ends with exit code 0 has run both.
C12_PushOrStop ==
    /\ args.noPush => ~Ran(IsPushCmd)
    /\ (args.noPush /\ pc = "done" /\ Ran(IsTagCmd) /\ ~TagFailed) => exitCode = 0
    /\ (args.noPush /\ exitCode = 0 /\ ConfirmationPassed) =>
          Ran(IsCommitCmd) /\ Ran(IsTagCmd)
    /\ \A i \in 1..Len(cmds) :
          IsPushCmd(cmds[i]) =>
              /\ cmds[i] \in {"git push", "git push --tags"}
              /\ \E j \in 1..(i - 1) : IsTagCmd(cmds[j])
              /\ ~TagFailed
              /\ cmds[i] = "git push --tags" => (cmds[i - 1] = "git push" /\ ~PushFailed)
              /\ cmds[i] = "git push" => IsTagCmd(cmds[i - 1])
    /\ PushFailed => exitCode = 1 /\ pc = "done" /\ cmds[Len(cmds)] = "git push"
    /\ PushTagsFailed => exitCode = 1 /\ pc = "done"
    /\ (~args.noPush /\ exitCode = 0 /\ ConfirmationPassed) =>
          SubSeq(cmds, Len(cmds) - 1, Len(cmds)) = <<"git push", "git push --tags">>

C12_Witness ==
    /\ args.noPush
    /\ exitCode = 0
    /\ Ran(IsTagCmd)
    /\ Logged(stdout, "no-push mode - stopping before push")

KeyPresent(versions, key) == \E e \in versions : e.key = key

ValuePresent(versions, key) == \E e \in versions : e.key = key /\ e.value # ""

MetadataWritten == Entered("changelog")

\* C13: after the metadata step manifest.json and package.json carry the
\* next version, nothing else in them changed, and versions.json maps the
\* next version to the minAppVersion read by the verify step exactly when
\* the key was not present before; a present key leaves versions.json as it
\* was.
C13_MetadataMutation ==
    MetadataWritten =>
        /\ manifestJson = [initial.manifest EXCEPT !.version = nextVersion]
        /\ packageJson = [initial.package EXCEPT !.version = nextVersion]
        /\ versionsJson =
              (IF KeyPresent(initial.versions, nextVersion)
               THEN initial.versions
               ELSE initial.versions
                       \cup {[key |-> nextVersion, value |-> initial.manifest.minAppVersion]})

\* C13, amended: as above, with "present" read as the code reads it: the key
\* is set when versions.json holds no non-empty value under it, so a key
\* present with an empty value is overwritten.
C13_MetadataMutationByValue ==
    MetadataWritten =>
        /\ manifestJson = [initial.manifest EXCEPT !.version = nextVersion]
        /\ packageJson = [initial.package EXCEPT !.version = nextVersion]
        /\ meta.minAppVersion = initial.manifest.minAppVersion
        /\ versionsJson =
              (IF ValuePresent(initial.versions, nextVersion)
               THEN initial.versions
               ELSE {e \in initial.versions : e.key # nextVersion}
                       \cup {[key |-> nextVersion, value |-> initial.manifest.minAppVersion]})

C13_Witness ==
    /\ MetadataWritten
    /\ KeyPresent(initial.versions, nextVersion)
    /\ ~ValuePresent(initial.versions, nextVersion)
    /\ ValuePresent(versionsJson, nextVersion)

WriterFailed == Logged(stderr, "No unreleased changes found in CHANGELOG.md.")

\* the parser found the unreleased entry empty (or created it empty)
ParsedEmpty == Logged(stdout, EmptyUnreleasedWarning)

UnreleasedContent == parsedChangelog.entries[FindUnreleased(parsedChangelog.entries)].content

\* C14: a run without --strict whose unreleased entry is missing or empty
\* does not abort in the ensure step; from then on the unreleased content is
\* the placeholder line; updateChangelog never throws for lack of unreleased
\* content; and the dated entry written has exactly the placeholder as
\* content.
C14_EnsureReleasableContent ==
    /\ ~WriterFailed
    /\ (~args.strict /\ Entered("ensure")) =>
          /\ ~Logged(stderr, EmptyPlaceholderWarning)
          /\ ~Logged(stderr, UnableToLocateWarning)
          /\ steps = <<"verify", "parse", "ensure">> => exitCode = -1
    /\ Entered("resolve") =>
          /\ HasUnreleased(parsedChangelog.entries)
          /\ UnreleasedContent # ""
          /\ ParsedEmpty => UnreleasedContent = "- _No changes recorded._"
    /\ (ParsedEmpty /\ Logged(writes, "CHANGELOG.md")) =>
          /\ changelog = "- _No changes recorded._"
          /\ includes(changelogFile,
                      "\n## [" \o nextVersion \o "] - " \o Today
                          \o "\n\n- _No changes recorded._\n")

C14_Witness ==
    /\ Logged(stdout, MissingUnreleasedWarning)
    /\ Logged(writes, "CHANGELOG.md")
    /\ changelog = "- _No changes recorded._"

\* manifest.json and package.json carry every field getProjectInfo requires
Loadable ==
    /\ initial.manifest.version # ""
    /\ initial.manifest.id # ""
    /\ initial.manifest.minAppVersion # ""
    /\ initial.package.version # ""

VersionMismatch == initial.manifest.version # initial.package.version

\* the run ended in the verify step with exit code 1 and nothing touched
VerifyAbort ==
    /\ steps = <<"verify">>
    /\ exitCode = 1
    /\ pc = "done"
    /\ NothingDone
    /\ parsedChangelog = NoParse

InconsistentAbort ==
    /\ VerifyAbort
    /\ \/ Logged(stderr, "Version mismatch: manifest.json has "
                            \o initial.manifest.version
                            \o ", but package.json has "
                            \o initial.package.version \o ".")
       \/ Logged(stderr, "Version " \o initial.manifest.version
                            \o " not found in versions.json.")

VerifySucceeded == Len(steps) >= 2 \/ (pc = "parse" /\ exitCode = -1)

OfHeading(parsed) ==
    {i \in 1..Len(parsed.entries) : parsed.entries[i].header = initial.heading}

\* the heading under test became an entry with the version it carries, and
\* the parser warned about no heading
HeadingExtracted(parsed) ==
    /\ OfHeading(parsed) # {}
    /\ \A i \in OfHeading(parsed) : parsed.entries[i].version = initial.version
    /\ \A i \in 1..Len(parsed.warnings) :
          parsed.warnings[i] \in {MissingUnreleasedWarning, EmptyUnreleasedWarning}

\* C16: a level-2 heading that carries a well-formed X.Y.Z version, in
\* brackets, in parentheses, bare or with a leading v, with or without a
\* date after it, is parsed into an entry whose version is exactly X.Y.Z,
\* and no warning is produced for it; the same holds when the rewritten
\* file is parsed again.
C16_HeadingVersionExtraction ==
    /\ pc # "parse" => HeadingExtracted(parsedChangelog)
    /\ pc = "reparsed" => HeadingExtracted(reparsed)

C16_Witness ==
    /\ pc = "update"
    /\ initial.heading = "## (10.2.30) - 2024-01-01"
    /\ \E i \in OfHeading(parsedChangelog) : parsedChangelog.entries[i].version = "10.2.30"

InitialLines == SplitLines(initial.changelog)

\* the level-2 heading lines of the file read, in their order
HeadingsOf(lines) == SelectSeq(lines, IsHeading)

NoUnreleasedHeading(lines) ==
    \A i \in 1..Len(lines) :
        IsHeading(lines[i]) => HeadingVersion(lines[i]) # "unreleased"

\* the lines before the first level-2 heading (all lines when there is none)
TopLevel(lines) ==
    SubSeq(lines, 1, RunEnd(lines, {i \in 1..Len(lines) : IsHeading(lines[i])}))

\* every line before the first heading is blank or a "# " line
NoTopLevelContent(lines) ==
    \A i \in 1..Len(TopLevel(lines)) :
        trim(lines[i]) = "" \/ startsWith(lines[i], "# ")

HeadersAre(entries, headings) ==
    /\ Len(entries) = Len(headings)
    /\ \A i \in 1..Len(entries) :
          /\ entries[i].header = trim(headings[i])
          /\ entries[i].version = HeadingVersion(headings[i])

\* C17: for a changelog with no heading classified as unreleased and no
\* top-level content before the first heading, parseChangelog returns the
\* missing-section warning and a list whose first element is an unreleased
\* entry with empty content, followed by the entries of all headings in their
\* original order.
C17_MissingUnreleasedRecovery ==
    (pc # "parse" /\ NoUnreleasedHeading(InitialLines) /\ NoTopLevelContent(InitialLines)) =>
        /\ Len(parsedChangelog.entries) >= 1
        /\ parsedChangelog.entries[1] = UnreleasedEntry("")
        /\ Logged(parsedChangelog.warnings, MissingUnreleasedWarning)
        /\ HeadersAre(Tail(parsedChangelog.entries), HeadingsOf(InitialLines))

C17_Witness ==
    /\ pc = "update"
    /\ initial.changelog = "# Changelog\n## [1.0.0] - 2024-01-01\n## v1.1.0-rc.1"
    /\ Len(parsedChangelog.entries) = 3
    /\ parsedChangelog.entries[1] = UnreleasedEntry("")
    /\ parsedChangelog.entries[3].version = "1.1.0-rc.1"

\* the lines from i on, each with its line break, without those in `skipped`
RECURSIVE TextFrom(_, _, _)
TextFrom(lines, i, skipped) ==
    IF i > Len(lines) THEN ""
    ELSE (IF i \in skipped THEN "" ELSE lines[i] \o "\n")
            \o TextFrom(lines, i + 1, skipped)

TitleLines(lines) == {i \in 1..Len(lines) : startsWith(lines[i], "# ")}

FirstTitleLine(lines) ==
    IF TitleLines(lines) = {} THEN {} ELSE {SetMin(TitleLines(lines))}

\* what parseChangelog returns for a file whose text before the first
\* heading is `text`
PromotionOf(text, lines, parsed) ==
    /\ (text # "" /\ NoUnreleasedHeading(lines)) =>
          /\ Len(parsed.entries) >= 1
          /\ parsed.entries[1] = UnreleasedEntry(text)
          /\ parsed.description = ""
          /\ ~Logged(parsed.warnings, MissingUnreleasedWarning)
          /\ HeadersAre(Tail(parsed.entries), HeadingsOf(lines))
    /\ ~NoUnreleasedHeading(lines) =>
          /\ parsed.description = text
          /\ HeadersAre(parsed.entries, HeadingsOf(lines))

\* C18 (as stated): the text before the first level-2 heading, the first
\* "# " line excepted, becomes the content of a first, unreleased entry when
\* it is non-blank and no heading is classified as unreleased (description
\* empty, no missing-section warning); it stays in description, with no
\* entry synthesized, when such a heading exists.
C18_PromotionExceptTitle ==
    pc # "parse" =>
        PromotionOf(trim(TextFrom(TopLevel(InitialLines), 1,
                                  FirstTitleLine(TopLevel(InitialLines)))),
                    InitialLines, parsedChangelog)

\* C18 (amended): the same, for the text before the first level-2 heading
\* without every line that starts with "# ".
C18_PromotionExceptTitleLines ==
    pc # "parse" =>
        PromotionOf(trim(TextFrom(TopLevel(InitialLines), 1,
                                  TitleLines(TopLevel(InitialLines)))),
                    InitialLines, parsedChangelog)

C18_Witness ==
    /\ pc = "update"
    /\ initial.changelog = "# Changelog\n- a\n## [1.0.0] - 2024-01-01"
    /\ parsedChangelog.entries[1] = UnreleasedEntry("- a")
    /\ parsedChangelog.description = ""

\* the version the argument resolves to, before the normalization
Resolved == resolveVersion(args.versionArg, initial.manifest.version, args.preid)

\* a formatted version has a "-" exactly when it has a pre-release component
HasPreRelease(v) == includes(v, "-")

LastDot(s) == SetMax({k \in 1..Len(s) : Char(s, k) = "."})

\* v without its last dot when only digits, and at least one, follow it
WithoutTrailingDot(v) ==
    IF LastDot(v) < Len(v) /\ AllDigits(SubSeq(v, LastDot(v) + 1, Len(v)))
    THEN RemoveAt(v, LastDot(v))
    ELSE v

Normalized(v) == IF HasPreRelease(v) THEN WithoutTrailingDot(v) ELSE v

\* C19: the next version is the resolved version with the dot before the
\* trailing digits of its pre-release component removed (1.0.0, prerelease,
\* beta gives 1.0.1-beta0), for keywords and explicit versions alike; a
\* version without pre-release component is unchanged; and this string is
\* the one the monotonicity check compares and the one written to the
\* metadata files, the changelog heading and the tag.
C19_CompatibilityNormalization ==
    nextVersion # Null =>
        /\ nextVersion = Normalized(Resolved)
        /\ ~HasPreRelease(Resolved) => nextVersion = Resolved
        /\ (args.versionArg = "prerelease" /\ args.preid = "beta"
               /\ initial.manifest.version = "1.0.0") => nextVersion = "1.0.1-beta0"
        /\ args.versionArg = "1.0.1-rc.1" => nextVersion = "1.0.1-rc1"
        /\ Entered("confirm") => ~SomeEntryAbove(parsedChangelog.entries, nextVersion)
        /\ (SomeEntryAbove(parsedChangelog.entries, nextVersion) /\ Entered("resolve")) =>
              ConflictAbort
        /\ Logged(writes, "manifest.json") => manifestJson.version = nextVersion
        /\ Logged(writes, "package.json") => packageJson.version = nextVersion
        /\ Logged(writes, "versions.json") => KeyPresent(versionsJson, nextVersion)
        /\ Logged(writes, "CHANGELOG.md") =>
              includes(changelogFile, "\n## [" \o nextVersion \o "] - " \o Today \o "\n")
        /\ \A i \in 1..Len(cmds) :
              IsTagCmd(cmds[i]) =>
                  startsWith(cmds[i], "git tag -a " \o nextVersion \o " -m \"")

C19_Witness ==
    /\ args.versionArg = "prerelease"
    /\ Resolved = "1.0.1-beta.0"
    /\ nextVersion = "1.0.1-beta0"
    /\ initial.changelog = "## [Unreleased]\n- a\n## [1.0.1-beta.5]\n- p\n"
    /\ Ran(IsTagCmd)
    /\ manifestJson.version = "1.0.1-beta0"

Keywords ==
    {"major", "minor", "patch", "premajor", "preminor", "prepatch", "prerelease"}

ExplicitArg == args.versionArg \notin Keywords

InvalidVersionAbort == Logged(stderr, "Invalid version: " \o args.versionArg)

\* C20: a version argument that is neither one of the seven keywords nor a
\* valid semantic version ends the run with the invalid-version error and
\* exit code 1, before the confirmation and with nothing changed; a valid
\* explicit version becomes the next version as it is given (normalized),
\* whatever the current version is, and the run then stops before the
\* confirmation only for a changelog entry above it or a failing comparison.
C20_InvalidVersion ==
    (Entered("resolve") /\ ExplicitArg) =>
        IF valid(args.versionArg) = Null
        THEN /\ InvalidVersionAbort
             /\ exitCode = 1
             /\ pc = "done"
             /\ nextVersion = Null
             /\ ~confirmation.reached
             /\ ~Entered("confirm")
             /\ NothingDone
        ELSE /\ ~InvalidVersionAbort
             /\ nextVersion = Normalized(valid(args.versionArg))
             /\ (exitCode = 1 /\ ~Entered("confirm")) =>
                   \/ ConflictAbort
                   \/ Logged(stderr, "Invalid Version: " \o nextVersion)

C20_Witness ==
    /\ args.versionArg = "not-a-version"
    /\ InvalidVersionAbort
    /\ steps = <<"verify", "parse", "ensure", "resolve">>

\* an explicit version below the current one is taken and released
C20_WitnessBelowCurrent ==
    /\ args.versionArg = "1.0.0"
    /\ initial.manifest.version = "1.0.1-beta0"
    /\ nextVersion = "1.0.0"
    /\ Entered("push")

WrittenLines == SplitLines(changelogFile)

HeadingLinesOf(lines) == {i \in 1..Len(lines) : IsHeading(lines[i])}

\* index of the first heading line after line i, 0 when there is none
HeadingAfter(lines, i) == MinOrZero({j \in HeadingLinesOf(lines) : j > i})

\* the trimmed text between the heading at line i and the next heading
SectionOf(lines, i) ==
    trim(TextFrom(SubSeq(lines, i + 1,
                         RunEnd(lines, {j \in HeadingLinesOf(lines) : j > i})), 1, {}))

\* the first two headings of the written text are the fresh unreleased
\* heading, with nothing under it, and the dated heading of the release,
\* with the consumed content under it
FreshThenDated(lines, first) ==
    /\ first # 0
    /\ lines[first] = "## [Unreleased]"
    /\ SectionOf(lines, first) = ""
    /\ HeadingAfter(lines, first) # 0
    /\ lines[HeadingAfter(lines, first)] = "## [" \o nextVersion \o "] - " \o Today
    /\ SectionOf(lines, HeadingAfter(lines, first)) = changelog

EndsWithOneNewline(text) ==
    /\ Len(text) >= 2
    /\ Char(text, Len(text)) = "\n"
    /\ Char(text, Len(text) - 1) # "\n"

ReturnsConsumedContent ==
    changelog = parsedChangelog.entries[FindUnreleased(parsedChangelog.entries)].content

PriorEntriesFollow ==
    BlocksInOrder(Padded(changelogFile),
                  RemoveAt(parsedChangelog.entries, FindUnreleased(parsedChangelog.entries)),
                  indexOf(changelogFile, "## [" \o nextVersion \o "] - " \o Today, 1))

\* C21: in the text updateChangelog writes the first level-2 heading is a
\* fresh "## [Unreleased]" with empty content, the entry right after it is
\* the new "## [<nextVersion>] - <date>" entry whose content is the consumed
\* unreleased content (also the value returned), all prior entries follow,
\* and the text ends with exactly one newline.
C21_WriterOutputStructure ==
    pc = "reparse" =>
        /\ FreshThenDated(WrittenLines, MinOrZero(HeadingLinesOf(WrittenLines)))
        /\ ReturnsConsumedContent
        /\ PriorEntriesFollow
        /\ EndsWithOneNewline(changelogFile)

\* the model has no unreleased entry, or the first one it has is empty
LacksUnreleasedContent(entries) ==
    \/ \A i \in 1..Len(entries) : entries[i].version # "unreleased"
    \/ \E i \in 1..Len(entries) :
          /\ entries[i].version = "unreleased"
          /\ entries[i].content = ""
          /\ \A j \in 1..(i - 1) : entries[j].version # "unreleased"

WriterThrew ==
    /\ pc = "thrown"
    /\ Logged(stderr, "No unreleased changes found in CHANGELOG.md.")

\* C22: updateChangelog fails with the missing-unreleased-content error when
\* the parsed model has no unreleased entry or its unreleased entry has empty
\* content, and only then; when it fails CHANGELOG.md is not written.
C22_WriterFailure ==
    /\ pc # "update" => (WriterThrew <=> LacksUnreleasedContent(parsedChangelog.entries))
    /\ WriterThrew => (changelogFile = initial.changelog /\ writes = <<>> /\ changelog = Null)
    /\ pc \in {"reparse", "reparsed"} => writes = <<"CHANGELOG.md">>

C22_Witness ==
    /\ WriterThrew
    /\ Len(parsedChangelog.entries) = 2
    /\ \A i \in 1..2 : parsedChangelog.entries[i].version # "unreleased"

C22_WitnessEmpty ==
    /\ WriterThrew
    /\ parsedChangelog.entries = <<UnreleasedEntry("")>>

\* C24: whenever the current and the default branch are both known and
\* equal, no run writes a file, commits or tags with a next version that
\* carries a pre-release component, whether the version came from a keyword
\* or was given as an explicit version string.
C24_PreReleaseOffDefaultBranch ==
    (nextVersion # Null /\ HasPreRelease(nextVersion) /\ OnDefaultBranch(branches)) =>
        /\ writes = <<>>
        /\ FilesUnchanged
        /\ ~Ran(IsCommitCmd)
        /\ ~Ran(IsTagCmd)

\* the tokens of MixedHeadings that are semantic versions
ValidTokens == {"1.0.0", "2.0.0"}

\* how often the parser warned about the heading under test
WarningsFor(parsed, heading) ==
    Cardinality({i \in 1..Len(parsed.warnings) :
                    includes(parsed.warnings[i], "\"" \o heading \o "\"")})

HasWord(heading) ==
    \E k \in 1..Len(heading) :
        k + 9 <= Len(heading) /\ SubSeq(heading, k, k + 9) \in
            {"Unreleased", "unreleased", "UNRELEASED"}

ClassifiedAs(parsed, version, warnings) ==
    /\ OfHeading(parsed) # {}
    /\ \A i \in OfHeading(parsed) : parsed.entries[i].version = version
    /\ WarningsFor(parsed, initial.heading) = warnings

\* C25: a heading is classified unreleased only when it holds no version
\* token; a heading with a token and the word "unreleased" gets the version
\* of its token; a heading whose token is no semantic version gets version
\* null and exactly one warning, also when it contains "unreleased"; the
\* parse returns and the entry is in the list.
C25_ClassificationPrecedence ==
    pc # "parse" =>
        IF initial.token \in ValidTokens
        THEN ClassifiedAs(parsedChangelog, initial.token, 0)
        ELSE IF initial.token # Null
        THEN ClassifiedAs(parsedChangelog, Null, 1)
        ELSE IF HasWord(initial.heading)
        THEN ClassifiedAs(parsedChangelog, "unreleased", 0)
        ELSE ClassifiedAs(parsedChangelog, Null, 0)

C25_Witness ==
    /\ pc = "update"
    /\ initial.heading = "## Unreleased 1.0.0.1"
    /\ ClassifiedAs(parsedChangelog, Null, 1)

C25_WitnessToken ==
    /\ pc = "update"
    /\ initial.heading = "## [Unreleased] 1.0.0"
    /\ ClassifiedAs(parsedChangelog, "1.0.0", 0)

\* some message on the stream mentions the unreleased section
NamesUnreleased(stream) ==
    \E i \in 1..Len(stream) :
        includes(toLowerCase(stream[i]), "unreleased")

\* C26: when a strict run has parsed a changelog with no unreleased section
\* and aborted, a message on the error stream names the missing section.
C26_StrictDiagnostics ==
    (args.strict /\ Logged(parsedChangelog.warnings, MissingUnreleasedWarning)
        /\ exitCode = 1) => NamesUnreleased(stderr)

\* C27: parsing the text updateChangelog wrote yields the title and the
\* description of the first parse, for every changelog text, also one
\* without a "# " title line.
C27_TitleAndPreambleStable ==
    pc = "reparsed" =>
        /\ reparsed.title = parsedChangelog.title
        /\ reparsed.description = parsedChangelog.description

\* the words /bin/sh makes of a command line, for command lines of plain
\* characters, blanks, double quotes and backslashes: inside double quotes a
\* backslash protects a following " or \, and a double quote ends the quoted
\* part, not the word
RECURSIVE ShellScan(_, _, _, _, _, _)
ShellScan(cmd, i, quoted, word, open, words) ==
    IF i > Len(cmd) THEN (IF open THEN Append(words, word) ELSE words)
    ELSE IF quoted /\ Char(cmd, i) = "\\" /\ i < Len(cmd) /\ Char(cmd, i + 1) \in {"\"", "\\"}
    THEN ShellScan(cmd, i + 2, TRUE, word \o Char(cmd, i + 1), TRUE, words)
    ELSE IF Char(cmd, i) = "\""
    THEN ShellScan(cmd, i + 1, ~quoted, word, TRUE, words)
    ELSE IF ~quoted /\ Char(cmd, i) \in {" ", "\n"}
    THEN ShellScan(cmd, i + 1, FALSE, "", FALSE,
                   IF open THEN Append(words, word) ELSE words)
    ELSE ShellScan(cmd, i + 1, quoted, word \o Char(cmd, i), TRUE, words)

ShellWords(cmd) == ShellScan(cmd, 1, FALSE, "", FALSE, <<>>)

\* C28: the release commit is made with the message "chore: release
\* <nextVersion>", a blank line and the content the writer returned, and the
\* tag is annotated with exactly that content, also for content with double
\* quotes; each command consists of the same words whatever the content.
C28_CommitAndTagMessages ==
    \A i \in 1..Len(cmds) :
        /\ IsCommitCmd(cmds[i]) =>
              ShellWords(cmds[i]) =
                  <<"git", "commit", "-am",
                    "chore: release " \o nextVersion \o "\n\n" \o changelog>>
        /\ IsTagCmd(cmds[i]) =>
              ShellWords(cmds[i]) = <<"git", "tag", "-a", nextVersion, "-m", changelog>>

\* the same for content without double quotes and backslashes
C28_PlainContent ==
    (changelog # Null /\ ~includes(changelog, "\"") /\ ~includes(changelog, "\\")) =>
        C28_CommitAndTagMessages

(***************************************************************************)
(* Properties of the paste cleaner plugin.                                 *)
(***************************************************************************)

\* text without the occurrences of lit, found from left to right from p on
RECURSIVE RemoveLiteral(_, _, _)
RECURSIVE RemoveLiteralAt(_, _, _, _)
RemoveLiteral(text, lit, p) == RemoveLiteralAt(indexOf(text, lit, p), text, lit, p)

RemoveLiteralAt(k, text, lit, p) ==
    IF k = 0 THEN SubSeq(text, p, Len(text))
    ELSE SubSeq(text, p, k - 1) \o RemoveLiteral(text, lit, k + Len(lit))

\* what one rule of RuleRows removes, said without the pattern machinery
Cleaned(text, rule) ==
    IF ~rule.isRegex THEN RemoveLiteral(text, rule.original, 1)
    ELSE CASE rule.original = "a+"   -> RemoveLiteral(text, "a", 1)
           [] rule.original = "."    -> ""
           [] rule.original = "\\."  -> RemoveLiteral(text, ".", 1)
           [] rule.original = "b?a"  -> RemoveLiteral(RemoveLiteral(text, "ba", 1), "a", 1)

\* the rules from i on, each on the text the one before left
RECURSIVE CleanedInOrder(_, _, _)
CleanedInOrder(text, rs, i) ==
    IF i > Len(rs) THEN text ELSE CleanedInOrder(Cleaned(text, rs[i]), rs, i + 1)

\* C23: applyRules applies the rules in list order, each removing every
\* occurrence of its pattern from the text the preceding rules left and
\* nothing else; a literal rule removes its exact text only, special
\* characters included; a null or undefined source gives the empty string.
C23_ApplyRulesInOrder ==
    pc = "shown" =>
        tab.tryDest = IF tab.trySource = Null THEN ""
                      ELSE CleanedInOrder(tab.trySource, rules, 1)

C23_Witness ==
    /\ pc = "shown"
    /\ tab.trySource = "a+a"
    /\ Len(rules) = 2
    /\ rules[1].original = "a+" /\ ~rules[1].isRegex
    /\ rules[2].original = "a" /\ ~rules[2].isRegex
    /\ tab.tryDest = ""

C23_WitnessUndefined ==
    /\ pc = "shown"
    /\ tab.trySource = Null
    /\ Len(rules) = 1
    /\ tab.tryDest = ""

\* onPaste called event.preventDefault()
Suppressed == event.defaultPrevented /\ ~initial.event.defaultPrevented

PlainTextPresent ==
    /\ initial.event.types # Null
    /\ \E i \in 1..Len(initial.event.types) : initial.event.types[i] = "text/plain"
    /\ initial.event.plainText # ""

CleanedPaste == CleanedInOrder(initial.event.plainText, rules, 1)

\* C29: onPaste suppresses the default paste only for an event that was not
\* already prevented, has non-empty text/plain content, and whose text the
\* rules changed; and whenever it suppresses the default paste the cleaned
\* text has been inserted into the editor.
C29_NoPasteLost ==
    (pc = "handled" /\ Suppressed) =>
        /\ PlainTextPresent
        /\ CleanedPaste # initial.event.plainText
        /\ editor.inserted = <<CleanedPaste>>

\* the first half alone, and the second for an active editor
C29_SuppressedOnlyWhenChanged ==
    (pc = "handled" /\ Suppressed) =>
        /\ PlainTextPresent
        /\ CleanedPaste # initial.event.plainText
        /\ editor.active => editor.inserted = <<CleanedPaste>>

\* the two arrays of the settings have the same length and no holes
Aligned(s) ==
    /\ Len(s.removalRules) = Len(s.isRegex)
    /\ \A i \in 1..Len(s.removalRules) : s.removalRules[i] # Null
    /\ \A i \in 1..Len(s.isRegex) : s.isRegex[i] \in BOOLEAN

\* the last handler acted on the rule its row displayed
OnOwnRule == tab.last.kind # "none" => tab.last.target = tab.last.shown

\* C30: also when a row's handler fires while a delete handler is suspended
\* in its save, each handler acts on the rule its row displays, and
\* removalRules and isRegex keep equal length and stay aligned.
C30_RowsUnderInterleaving ==
    /\ OnOwnRule
    /\ Aligned(settings)

\* a handler that fires while none is suspended and the rows are those of
\* the settings acts on its own rule and keeps the arrays aligned
C30_WithoutInterleaving ==
    [][(tab.saving = <<>> /\ tab.rows = display(settings) /\ Aligned(settings))
          => (OnOwnRule' /\ Aligned(settings'))]_vars

\* the delete button of the row showing "b" removed the rule "ab"
C30_DeletedOtherRule ==
    tab.last = [kind |-> "delete", index |-> 2, shown |-> "b", target |-> "ab"]

\* the toggle of the last row wrote past the end of isRegex
C30_Misaligned ==
    /\ tab.last.kind = "toggle"
    /\ Len(settings.isRegex) > Len(settings.removalRules)

=============================================================================
